---- MODULE Spec2Model ----
(***************************************************************************)
(* Model of the Order-of-Merit competition pipeline (package oom and its   *)
(* main program): the bounded concurrent loader of main, the descriptor    *)
(* resolver FetchCompDescriptions, the per-competition cache (saveComp /   *)
(* readCached) and the scoring of populateResultsFromWeb.                  *)
(*                                                                         *)
(* The module holds several specifications over one set of variables:      *)
(*   SpecMain  - main's dispatch loop, admission gate and join             *)
(*   SpecScore - populateResultsFromWeb on bounded pages                   *)
(*   SpecRuns  - two successive runs of the program over one file system   *)
(*   SpecCache - saveComp, readCached, saveComp on one competition         *)
(*   SpecPage  - oom.Load on a results page given as text                  *)
(*   SpecConf  - parseKeysFromFile on a file given as text                 *)
(*   SpecList  - parseWebComps on a listing page given as text             *)
(*   SpecTasks - main's goroutines one by one, with the counter concurrent *)
(*   SpecSave  - saveComp line by line, process exit, the next readCached *)
(*   SpecMainLive - SpecMain under weak fairness                           *)
(* A specification leaves the variables of the others at their idle value. *)
(***************************************************************************)
EXTENDS Integers, Sequences, FiniteSets, TLC

\* ---------------------------------------------------------------- bounds

\* Longest page (number of player rows) of SpecScore.
MaxPlayers == 3

\* Largest number of competitions main dispatches in SpecMain (more than
\* the gate's capacity, so that the gate closes).
MaxComps == 11

\* make(chan int, 10): the capacity of the admission gate.
SlotCap == 10

\* ------------------------------------------------------------- variables

VARIABLES
    \* ---- SpecMain: main() and its goroutines, counted by position
    mainpc,       \* where main is
    numComps,     \* len(theOOM.Competitions)
    dispatched,   \* the loop index i of the dispatch loop
    slots,        \* number of values in channel slots
    completed,    \* number of values in channel completed
    received,     \* iterations of the join loop done
    spawned,      \* goroutines created that have not yet called oom.Load
    loading,      \* goroutines inside oom.Load, before any fetch
    fetching,     \* goroutines inside oom.Load, inside MustFetch
    sending,      \* goroutines whose oom.Load returned, at completed <- 1
    releasing,    \* goroutines at <- slots
    fatal,        \* goroutines inside log.Fatal, before os.Exit
    exited,       \* os.Exit has ended the process
    fetchFailed,  \* some fetch of this run failed (history)
    loadsReturned, \* number of calls of oom.Load that returned (history)
    \* ---- SpecScore: one call of populateResultsFromWeb
    sPage,        \* the (name, result) pairs detail() extracts, in page order
    sComp,        \* the Competition being populated
    sDone,        \* populateResultsFromWeb has returned
    \* ---- SpecRuns: successive runs of the program over one file system
    cfg,          \* the lines of oom.conf
    webListing,   \* the listing page the site serves
    webPages,     \* the (name, result) rows of the page at each URL
    listingFile,  \* all_comps_<year>.dat: None or a listing page
    compFiles,    \* <key>.txt for each key: None or the file's lines
    runNo,        \* which run of the program this is
    runpc,        \* where main is in this run
    comps,        \* theOOM.Competitions
    taskpc,       \* where the goroutine of each competition is
    taskSrc,      \* what populated each competition (history)
    client,       \* the package variable client: "nil" or "set"
    logins,       \* calls of login() in this run
    session,      \* how login() ended: "none", "ok" or "failed" (history)
    mutex,        \* the package's mutex: 0, or the goroutine that holds it
    listingFetches, \* GETs of the listing page in this run
    refetches,    \* calls of fetchAllCompsPage(year, false) in this run
    listingWrites, \* writes of all_comps_<year>.dat in this run
    listingReads, \* reads of all_comps_<year>.dat in this run
    pageFetches,  \* GETs of competition pages in this run
    resolved,     \* how FetchCompDescriptions ended in this run
    runFetchFailed, \* a fetch of this run failed (history)
    cacheAtStart, \* listingFile when this run started (history)
    prevOk,       \* the run before this one completed (history)
    prevComps,    \* theOOM.Competitions at the end of that run (history)
    \* ---- SpecCache: saveComp, readCached, saveComp on one competition
    rtComp,       \* the Competition saved first
    rtFile1,      \* the lines of <key>.txt after the first saveComp
    rtBack,       \* the Competition readCached leaves
    rtFile2,      \* the lines of <key>.txt after the second saveComp
    rtpc,         \* how far the round trip has come
    \* ---- SpecPage: one call of oom.Load on a page given as text
    pgText,       \* the page MustFetch returns for comp.URL, part by part
    pgComp,       \* the Competition passed to oom.Load
    pgFile,       \* <key>.txt: None or the file's lines
    pgpc,         \* "start", "loaded", "died" or "aggregated"
    \* ---- SpecConf: one call of parseKeysFromFile on a file given as text
    cfLines,      \* the lines of the file, as the scanner yields them
    cfOut,        \* what the call returned, or how the process ended
    cfpc,         \* "start" or "done"
    \* ---- SpecList: one call of parseWebComps on a listing page as text
    lsText,       \* the listing page
    lsMade,       \* the whole entries the page was made of (history)
    lsOut,        \* what the call returned, or how the process ended
    lspc,         \* "start" or "done"
    \* ---- SpecTasks: the goroutines of main, each with its own identity
    tkN,          \* len(theOOM.Competitions)
    tkMain,       \* where main is
    tkDispatched, \* the loop index i of the dispatch loop
    tkReceived,   \* iterations of the join loop done
    tkSlots,      \* number of values in channel slots
    tkCompleted,  \* number of values in channel completed
    tkpc,         \* where the goroutine of each competition is
    concurrent,   \* the local variable concurrent of main
    tkReg,        \* the value each goroutine has read from concurrent
    wConcurrent,  \* the goroutines that have written concurrent (history)
    wComp,        \* the goroutines that have written each Competition (history)
    \* ---- SpecSave: saveComp line by line, the end of the process, and
    \* ---- readCached in the next run
    svComp,       \* the Competition populateResultsFromWeb left
    svLines,      \* the lines saveComp is to write, in the order of its range
    svFile,       \* <key>.txt on disk: None or the lines written so far
    svBack,       \* the Competition readCached leaves in the next run
    svpc          \* where the goroutine, the process and the next run are

mainVars == <<mainpc, numComps, dispatched, slots, completed, received,
              spawned, loading, fetching, sending, releasing, fatal,
              exited, fetchFailed, loadsReturned>>

scoreVars == <<sPage, sComp, sDone>>

webVars == <<cfg, webListing, webPages>>

fileVars == <<listingFile, compFiles>>

\* What login() and the mutex of MustFetch work on.
loginVars == <<client, logins, session, mutex>>

\* What the resolver does with the listing page and its cache file.
listingCounts == <<listingFetches, refetches, listingWrites, listingReads>>

procVars == <<runNo, runpc, comps, taskpc, taskSrc, loginVars,
              listingCounts, pageFetches, resolved,
              runFetchFailed, cacheAtStart, prevOk, prevComps>>

runVars == <<webVars, fileVars, procVars>>

cacheVars == <<rtComp, rtFile1, rtBack, rtFile2, rtpc>>

pageVars == <<pgText, pgComp, pgFile, pgpc>>

confVars == <<cfLines, cfOut, cfpc>>

listVars == <<lsText, lsMade, lsOut, lspc>>

saveVars == <<svComp, svLines, svFile, svBack, svpc>>

taskVars == <<tkN, tkMain, tkDispatched, tkReceived, tkSlots, tkCompleted,
              tkpc, concurrent, tkReg, wConcurrent, wComp>>

vars == <<mainVars, scoreVars, runVars, cacheVars, pageVars, confVars,
          listVars, taskVars, saveVars>>

\* What the actions of one specification leave alone: the variables of
\* the others.
notMain == <<scoreVars, runVars, cacheVars, pageVars, confVars, listVars,
             taskVars, saveVars>>
notScore == <<mainVars, runVars, cacheVars, pageVars, confVars, listVars,
              taskVars, saveVars>>
notRuns == <<mainVars, scoreVars, cacheVars, pageVars, confVars, listVars,
             taskVars, saveVars>>
notPage == <<mainVars, scoreVars, runVars, cacheVars, confVars, listVars,
             taskVars, saveVars>>
notCache == <<mainVars, scoreVars, runVars, pageVars, confVars, listVars,
              taskVars, saveVars>>
notList == <<mainVars, scoreVars, runVars, cacheVars, pageVars, confVars,
             taskVars, saveVars>>
notConf == <<mainVars, scoreVars, runVars, cacheVars, pageVars, listVars,
             taskVars, saveVars>>
notSave == <<mainVars, scoreVars, runVars, cacheVars, pageVars, confVars,
             listVars, taskVars>>
notTasks == <<mainVars, scoreVars, runVars, cacheVars, pageVars, confVars,
              listVars, saveVars>>

\* ---------------------------------------------------------------- strings
\* A string is a sequence of tokens. A token is one character, or a run of
\* characters that holds no comma, space, digit, sign, colon or '#' and that
\* no operation looks inside (a word of a name, the host and path of a URL).

Digits == {"0", "1", "2", "3", "4", "5", "6", "7", "8", "9"}

DigitVal(c) ==
    CASE c = "0" -> 0 [] c = "1" -> 1 [] c = "2" -> 2 [] c = "3" -> 3
      [] c = "4" -> 4 [] c = "5" -> 5 [] c = "6" -> 6 [] c = "7" -> 7
      [] c = "8" -> 8 [] c = "9" -> 9

DigitChar(d) ==
    CASE d = 0 -> "0" [] d = 1 -> "1" [] d = 2 -> "2" [] d = 3 -> "3"
      [] d = 4 -> "4" [] d = 5 -> "5" [] d = 6 -> "6" [] d = 7 -> "7"
      [] d = 8 -> "8" [] d = 9 -> "9"

\* The digits of s after an optional sign.
IntBody(s) == IF Len(s) > 0 /\ s[1] \in {"+", "-"} THEN Tail(s) ELSE s

\* strconv.Atoi(s) returns no error (values within the range of int).
AtoiOk(s) ==
    /\ Len(IntBody(s)) > 0
    /\ \A i \in 1..Len(IntBody(s)) : IntBody(s)[i] \in Digits

RECURSIVE DigitsVal(_)
DigitsVal(s) ==
    IF s = <<>> THEN 0
    ELSE 10 * DigitsVal(SubSeq(s, 1, Len(s) - 1)) + DigitVal(s[Len(s)])

\* The value of strconv.Atoi(s): 0 when it returns an error.
Atoi(s) ==
    IF ~AtoiOk(s) THEN 0
    ELSE IF s[1] = "-" THEN 0 - DigitsVal(IntBody(s))
    ELSE DigitsVal(IntBody(s))

RECURSIVE NatStr(_)
NatStr(n) ==
    IF n < 10 THEN <<DigitChar(n)>>
    ELSE Append(NatStr(n \div 10), DigitChar(n % 10))

\* An int printed by fmt with %v.
Itoa(n) == IF n < 0 THEN <<"-">> \o NatStr(0 - n) ELSE NatStr(n)

RECURSIVE Spaces(_)
Spaces(n) == IF n <= 0 THEN <<>> ELSE <<" ">> \o Spaces(n - 1)

\* fmt's %<w>v: s right-justified in a field of w characters.
Pad(w, s) == Spaces(w - Len(s)) \o s

RECURSIVE TrimLeft(_)
TrimLeft(s) ==
    IF s # <<>> /\ s[1] = " " THEN TrimLeft(Tail(s)) ELSE s

RECURSIVE TrimRight(_)
TrimRight(s) ==
    IF s # <<>> /\ s[Len(s)] = " "
    THEN TrimRight(SubSeq(s, 1, Len(s) - 1)) ELSE s

\* strings.TrimSpace
TrimSpace(s) == TrimRight(TrimLeft(s))

\* strings.Split(s, ","): the fields between the commas of s.
RECURSIVE Split(_)
Split(s) ==
    IF \A i \in 1..Len(s) : s[i] # ","
    THEN <<s>>
    ELSE LET i == CHOOSE j \in 1..Len(s) :
                      s[j] = "," /\ \A h \in 1..(j - 1) : s[h] # ","
         IN  <<SubSeq(s, 1, i - 1)>> \o Split(SubSeq(s, i + 1, Len(s)))

\* Positions are counted from 0 as in Go.

\* strings.Index(s, tok): where tok first starts in s, or -1.
Index(s, tok) ==
    LET hits == {i \in 0..(Len(s) - Len(tok)) :
                    SubSeq(s, i + 1, i + Len(tok)) = tok}
    IN  IF hits = {} THEN -1
        ELSE CHOOSE i \in hits : \A j \in hits : i <= j

\* strings.LastIndex(s, tok): where tok last starts in s, or -1.
LastIndex(s, tok) ==
    LET hits == {i \in 0..(Len(s) - Len(tok)) :
                    SubSeq(s, i + 1, i + Len(tok)) = tok}
    IN  IF hits = {} THEN -1
        ELSE CHOOSE i \in hits : \A j \in hits : i >= j

\* The slice expression s[a:b] does not panic.
SliceOk(s, a, b) == 0 <= a /\ a <= b /\ b <= Len(s)

\* s[a:b]
Slice(s, a, b) == SubSeq(s, a + 1, b)

\* ----------------------------------------------------------- competitions

\* Competition{Key: key}: the other fields have their zero value.
NewCompetition(key) ==
    [Key |-> key, Name |-> <<>>, Date |-> <<>>, URL |-> <<>>,
     NumPlayers |-> 0, Results |-> <<>>]

\* m[p.Name] = p on a map keyed by player name.
PutResult(m, p) ==
    [x \in (DOMAIN m) \cup {p.Name} |-> IF x = p.Name THEN p ELSE m[x]]

\* The first loop of populateResultsFromWeb: one PlayerResult per fragment
\* after the first, with its rank the count of fragments so far.
ScanPlayers(rows) ==
    [i \in 1..Len(rows) |->
        [Name |-> rows[i][1], Result |-> rows[i][2], Rank |-> i,
         OOMPoints |-> 0]]

\* The points of the player at index n (from 0) of res.
PointsFor(numPlayers, n, result) ==
    IF AtoiOk(result) THEN numPlayers - n ELSE 0

\* The second loop of populateResultsFromWeb, from index n (from 0) on.
RECURSIVE StoreScored(_, _, _, _)
StoreScored(res, n, numPlayers, m) ==
    IF n >= Len(res) THEN m
    ELSE StoreScored(res, n + 1, numPlayers,
            PutResult(m, [res[n + 1] EXCEPT
                !.OOMPoints = PointsFor(numPlayers, n, res[n + 1].Result)]))

\* populateResultsFromWeb, given the (name, result) pairs of the fetched
\* page's fragments.
populateResultsFromWeb(comp, rows) ==
    [comp EXCEPT !.NumPlayers = Len(rows),
                 !.Results = StoreScored(ScanPlayers(rows), 0, Len(rows), <<>>)]

\* -------------------------------------------- the per-competition cache
\* A cache file <key>.txt is the sequence of its lines; the "\r\n" that
\* saveComp writes after each line is what bufio.Scanner splits at.

\* A file that does not exist, and a file holding d.
None == [exists |-> FALSE, data |-> <<>>]
File(d) == [exists |-> TRUE, data |-> d]

\* One player row of saveComp: "%10v, %12v, %8v, %v, %s".
SaveRow(p) ==
    Pad(10, Itoa(p.OOMPoints)) \o <<",", " ">> \o
    Pad(12, Itoa(p.Rank)) \o <<",", " ">> \o
    Pad(8, p.Result) \o <<",", " ">> \o
    p.Name \o <<",", " ">>

HeaderRow ==
    <<"oom_points", ",", " ", "rank_in_comp", ",", " ", "igresult", ",",
      " ", "name", " ", "-", " ", "row", " ", "per", " ", "player">>

\* saveComp: the lines written for comp, its players in the order the
\* range over the map comp.Results yields them.
saveComp(comp, order) ==
    << <<"key", ",", " ">> \o comp.Key,
       <<"name", ",", " ">> \o comp.Name,
       <<"date", ",", " ">> \o comp.Date,
       <<"url", ",", " ">> \o comp.URL,
       <<"number", " ", "of", " ", "players", ",", " ">>
           \o Itoa(comp.NumPlayers),
       HeaderRow >>
    \o [i \in 1..Len(order) |-> SaveRow(comp.Results[order[i]])]

\* The orders in which a range over map m may yield its keys.
MapOrders(m) ==
    {o \in [1..Cardinality(DOMAIN m) -> DOMAIN m] :
        \A i, j \in 1..Cardinality(DOMAIN m) : o[i] = o[j] => i = j}

\* strings.TrimSpace(strings.Split(line, ",")[n]), n counted from 0.
Field(line, n) == TrimSpace(Split(line)[n + 1])

\* Index of the first line that does not begin with "#".
RECURSIVE SkipComments(_, _)
SkipComments(lines, i) ==
    IF i <= Len(lines) /\ lines[i] # <<>> /\ lines[i][1] = "#"
    THEN SkipComments(lines, i + 1) ELSE i

\* Mutant of ReadRow: points and rank are read from each other's field.
ReadRowSwapped(line) ==
    [Name |-> Field(line, 3), Result |-> Field(line, 2),
     Rank |-> Atoi(Field(line, 0)), OOMPoints |-> Atoi(Field(line, 1))]

\* The PlayerResult readCached builds from one player row.
ReadRow(line) ==
    [Name |-> Field(line, 3), Result |-> Field(line, 2),
     Rank |-> Atoi(Field(line, 1)), OOMPoints |-> Atoi(Field(line, 0))]

\* The row loop of readCached from line i on.
RECURSIVE ReadRows(_, _, _)
ReadRows(lines, i, m) ==
    IF i > Len(lines) THEN m
    ELSE ReadRows(lines, i + 1, PutResult(m, ReadRow(lines[i])))

\* Mutant of readCached: key, name, date and URL stay as comp has them.
readCachedKeepingDescriptor(comp, lines) ==
    LET k == SkipComments(lines, 1)
    IN  [Key |-> comp.Key,
         Name |-> comp.Name,
         Date |-> comp.Date,
         URL |-> comp.URL,
         NumPlayers |-> Atoi(Field(lines[k + 4], 1)),
         Results |-> ReadRows(lines, k + 6, <<>>)]

\* Whether readCached on an existing file ends in a run-time panic: the
\* scanner has no line where the code takes scanner.Text()[0:1], or
\* Split(scanner.Text(), ",")[1] of one of the five head lines.
readCachedPanics(lines) ==
    LET k == SkipComments(lines, 1)
    IN  \/ k > Len(lines)
        \/ Len(lines) < k + 4
        \/ \E j \in k..(k + 4) : Len(Split(lines[j])) < 2

readCached(comp, lines) ==
    LET k == SkipComments(lines, 1)
    IN  [Key |-> Field(lines[k], 1),
         Name |-> Field(lines[k + 1], 1),
         Date |-> Field(lines[k + 2], 1),
         URL |-> Field(lines[k + 3], 1),
         NumPlayers |-> Atoi(Field(lines[k + 4], 1)),
         Results |-> ReadRows(lines, k + 6, <<>>)]

\* ------------------------------------------------------------ the resolver
\* The listing page is the sequence of its (identifier, name, date)
\* entries, in page order.

BaseURL ==
    <<"h", "t", "t", "p", ":", "/", "/", "w", "w", "w", ".", "c", "o", "l",
      "c", "h", "e", "s", "t", "e", "r", "g", "o", "l", "f", "c", "l", "u",
      "b", ".", "c", "o", "m", "/", "c", "o", "m", "p", "e", "t", "i", "t",
      "i", "o", "n", ".", "p", "h", "p", "?", "c", "o", "m", "p", "i", "d",
      "=">>

SortSuffix ==
    <<"&", "s", "o", "r", "t", "=", "1">>

Letters ==
    {"a", "b", "c", "d", "e", "f", "g", "h", "i", "j", "k", "l", "m", "n",
     "o", "p", "q", "r", "s", "t", "u", "v", "w", "x", "y", "z"}

Http ==
    <<"h", "t", "t", "p">>

Https ==
    <<"h", "t", "t", "p", "s">>

\* url.Parse(s).Scheme, for s in lower case: what precedes the first ":"
\* if that begins with a letter and holds only letters, digits, "+", "-"
\* and ".", else empty. (The texts of the model are such that url.Parse
\* returns no error.)
Scheme(s) ==
    LET i == Index(s, <<":">>)
    IN  IF /\ i > 0
           /\ s[1] \in Letters
           /\ \A j \in 1..i : s[j] \in Letters \cup Digits \cup {"+", "-", "."}
        THEN Slice(s, 0, i) ELSE <<>>

\* parseKeysFromFile: one descriptor per line in which parseNextCompKey
\* finds an identifier; line.url is the text of the line's second
\* comma-separated field, trimmed.
RECURSIVE parseKeysFromFile(_)
parseKeysFromFile(lines) ==
    IF lines = <<>> THEN <<>>
    ELSE LET l == Head(lines)
             desc == [NewCompetition(l.key) EXCEPT
                         !.URL = IF Scheme(l.url) = Http THEN l.url
                                 ELSE <<>>]
         IN  (IF l.key # <<>> THEN <<desc>> ELSE <<>>)
             \o parseKeysFromFile(Tail(lines))

\* parseWebComps: the map from identifier to Competition, a later entry
\* of the page replacing an earlier one with the same identifier.
RECURSIVE parseWebComps(_)
parseWebComps(listing) ==
    IF listing = <<>> THEN <<>>
    ELSE LET m == parseWebComps(SubSeq(listing, 1, Len(listing) - 1))
             e == listing[Len(listing)]
         IN  [k \in (DOMAIN m) \cup {e.Key} |->
                 IF k = e.Key
                 THEN [Key |-> e.Key, Name |-> e.Name, Date |-> e.Date,
                       URL |-> BaseURL \o e.Key, NumPlayers |-> 0,
                       Results |-> <<>>]
                 ELSE m[k]]

\* firstMissingKey: whether a key of c is not in m, and the first such.
firstMissingKey(c, m) ==
    LET missing == {i \in 1..Len(c) : c[i].Key \notin DOMAIN m}
    IN  IF missing = {} THEN [missing |-> FALSE, key |-> <<>>]
        ELSE [missing |-> TRUE,
              key |-> c[CHOOSE i \in missing : \A j \in missing : i <= j].Key]

\* The state a fetch works on: the listing cache file, the package's
\* client, and the counts of what the process has done on the network.
\* net is that the network does: "ok", "fail" (transport error or status
\* other than 200) or "nologin" (login() returns an error).
MustFetch(env, net) ==
    LET logsIn == env.client = "nil"
        e1 == IF logsIn
              THEN [env EXCEPT !.client = "set", !.logins = @ + 1,
                               !.session = IF net = "nologin"
                                           THEN "failed" ELSE "ok"]
              ELSE env
    IN  IF logsIn /\ net = "nologin" THEN [env |-> e1, died |-> "login"]
        ELSE IF net = "ok" THEN [env |-> e1, died |-> ""]
        ELSE [env |-> e1, died |-> "fetch"]

\* The live branch of fetchAllCompsPage: MustFetch of the listing URL,
\* then ioutil.WriteFile of what came.
fetchListingLive(env, web, net) ==
    LET r == MustFetch(env, net)
        e2 == [r.env EXCEPT !.listingFetches = @ + 1]
    IN  IF r.died = "login"
        THEN [d |-> <<>>, fromCache |-> FALSE, env |-> r.env,
              died |-> r.died]
        ELSE IF r.died = "fetch"
        THEN [d |-> <<>>, fromCache |-> FALSE, env |-> e2, died |-> r.died]
        ELSE [d |-> web, fromCache |-> FALSE,
              env |-> [e2 EXCEPT !.file = File(web), !.writes = @ + 1],
              died |-> ""]

\* Mutant of fetchAllCompsPage: the cache file is read even when
\* useCached is false.
fetchAllCompsPageAlwaysCached(env, useCached, web, net) ==
    LET e0 == [env EXCEPT !.reads = @ + 1]
    IN  IF env.file.exists
        THEN [d |-> env.file.data, fromCache |-> TRUE, env |-> e0,
              died |-> ""]
        ELSE fetchListingLive(e0, web, net)

\* Mutant of fetchAllCompsPage: the cache file is never read.
fetchAllCompsPageNeverCached(env, useCached, web, net) ==
    fetchListingLive(env, web, net)

\* fetchAllCompsPage(year, useCached): the listing, whether it came from
\* all_comps_<year>.dat, and the state left.
fetchAllCompsPage(env, useCached, web, net) ==
    LET e0 == IF useCached THEN [env EXCEPT !.reads = @ + 1] ELSE env
    IN  IF useCached /\ env.file.exists
        THEN [d |-> env.file.data, fromCache |-> TRUE, env |-> e0,
              died |-> ""]
        ELSE fetchListingLive(e0, web, net)

\* The last loop of FetchCompDescriptions: name and date from the listing,
\* and its URL with the suffix where the descriptor has none.
UpdateDescs(oomComps, all) ==
    [n \in 1..Len(oomComps) |->
        IF oomComps[n].Key \in DOMAIN all
        THEN [oomComps[n] EXCEPT
                 !.Name = all[oomComps[n].Key].Name,
                 !.Date = all[oomComps[n].Key].Date,
                 !.URL = IF @ = <<>>
                         THEN all[oomComps[n].Key].URL \o SortSuffix
                         ELSE @]
        ELSE oomComps[n]]

\* Mutant of FetchCompDescriptions: the listing is fetched again whenever
\* an identifier is missing, also after a live fetch.
FetchCompDescriptionsRefetching(lines, env, web, net1, net2) ==
    LET oomComps == parseKeysFromFile(lines)
        r1 == fetchAllCompsPage(env, TRUE, web, net1)
        m1 == firstMissingKey(oomComps, parseWebComps(r1.d))
        e2 == [r1.env EXCEPT !.refetches = @ + 1]
        r2 == fetchAllCompsPage(e2, FALSE, web, net2)
        m2 == firstMissingKey(oomComps, parseWebComps(r2.d))
    IN  IF r1.died # ""
        THEN [status |-> r1.died, descs |-> <<>>, env |-> r1.env]
        ELSE IF m1.missing
        THEN IF r2.died # ""
             THEN [status |-> r2.died, descs |-> <<>>, env |-> r2.env]
             ELSE IF m2.missing
             THEN [status |-> "missing", descs |-> <<>>, env |-> r2.env]
             ELSE [status |-> "ok",
                   descs |-> UpdateDescs(oomComps, parseWebComps(r2.d)),
                   env |-> r2.env]
        ELSE [status |-> "ok",
              descs |-> UpdateDescs(oomComps, parseWebComps(r1.d)),
              env |-> r1.env]

\* FetchCompDescriptions(year, fname): status "ok" with the descriptors,
\* or what ended the process: "missing" (an identifier is not in the
\* listing), "fetch" or "login". net1 and net2 are what the network does
\* at the first and at the second call of fetchAllCompsPage.
FetchCompDescriptions(lines, env, web, net1, net2) ==
    LET oomComps == parseKeysFromFile(lines)
        r1 == fetchAllCompsPage(env, TRUE, web, net1)
        m1 == firstMissingKey(oomComps, parseWebComps(r1.d))
        e2 == [r1.env EXCEPT !.refetches = @ + 1]
        r2 == fetchAllCompsPage(e2, FALSE, web, net2)
        m2 == firstMissingKey(oomComps, parseWebComps(r2.d))
    IN  IF r1.died # ""
        THEN [status |-> r1.died, descs |-> <<>>, env |-> r1.env]
        ELSE IF m1.missing /\ ~r1.fromCache
        THEN [status |-> "missing", descs |-> <<>>, env |-> r1.env]
        ELSE IF m1.missing /\ r1.fromCache
        THEN IF r2.died # ""
             THEN [status |-> r2.died, descs |-> <<>>, env |-> r2.env]
             ELSE IF m2.missing /\ ~r2.fromCache
             THEN [status |-> "missing", descs |-> <<>>, env |-> r2.env]
             ELSE [status |-> "ok",
                   descs |-> UpdateDescs(oomComps, parseWebComps(r2.d)),
                   env |-> r2.env]
        ELSE [status |-> "ok",
              descs |-> UpdateDescs(oomComps, parseWebComps(r1.d)),
              env |-> r1.env]

\* ------------------------------------------------------------ idle values

MainIdle ==
    /\ mainpc = "idle"
    /\ numComps = 0
    /\ dispatched = 0
    /\ slots = 0
    /\ completed = 0
    /\ received = 0
    /\ spawned = 0
    /\ loading = 0
    /\ fetching = 0
    /\ sending = 0
    /\ releasing = 0
    /\ fatal = 0
    /\ exited = FALSE
    /\ fetchFailed = FALSE
    /\ loadsReturned = 0

ScoreIdle ==
    /\ sPage = <<>>
    /\ sComp = NewCompetition(<<>>)
    /\ sDone = TRUE

RunsIdle ==
    /\ cfg = <<>>
    /\ webListing = <<>>
    /\ webPages = <<>>
    /\ listingFile = None
    /\ compFiles = <<>>
    /\ runNo = 0
    /\ runpc = "idle"
    /\ comps = <<>>
    /\ taskpc = <<>>
    /\ taskSrc = <<>>
    /\ client = "nil"
    /\ logins = 0
    /\ session = "none"
    /\ mutex = 0
    /\ listingFetches = 0
    /\ refetches = 0
    /\ listingWrites = 0
    /\ listingReads = 0
    /\ pageFetches = 0
    /\ resolved = "pending"
    /\ runFetchFailed = FALSE
    /\ cacheAtStart = None
    /\ prevOk = FALSE
    /\ prevComps = <<>>

CacheIdle ==
    /\ rtComp = NewCompetition(<<>>)
    /\ rtFile1 = <<>>
    /\ rtBack = NewCompetition(<<>>)
    /\ rtFile2 = <<>>
    /\ rtpc = "idle"

PageIdle ==
    /\ pgText = <<>>
    /\ pgComp = NewCompetition(<<>>)
    /\ pgFile = None
    /\ pgpc = "idle"

ConfIdle ==
    /\ cfLines = <<>>
    /\ cfOut = [died |-> "", descs |-> <<>>]
    /\ cfpc = "idle"

ListIdle ==
    /\ lsText = <<>>
    /\ lsMade = <<>>
    /\ lsOut = [died |-> "", comps |-> <<>>]
    /\ lspc = "idle"

TasksIdle ==
    /\ tkN = 0
    /\ tkMain = "idle"
    /\ tkDispatched = 0
    /\ tkReceived = 0
    /\ tkSlots = 0
    /\ tkCompleted = 0
    /\ tkpc = <<>>
    /\ concurrent = 0
    /\ tkReg = <<>>
    /\ wConcurrent = {}
    /\ wComp = <<>>

SaveIdle ==
    /\ svComp = NewCompetition(<<>>)
    /\ svLines = <<>>
    /\ svFile = None
    /\ svBack = NewCompetition(<<>>)
    /\ svpc = "idle"

\* =====================================================================
\* SpecMain: main (src/webfunc.go 178-218)
\* =====================================================================

\* Calls of oom.Load that have started and not yet returned or died.
LoadsInFlight == loading + fetching + fatal

\* Goroutines that hold a slot of the gate.
SlotHolders == spawned + loading + fetching + sending + releasing + fatal

MainInit ==
    /\ mainpc = "resolve"
    /\ numComps \in 0..MaxComps
    /\ dispatched = 0
    /\ slots = 0
    /\ completed = 0
    /\ received = 0
    /\ spawned = 0
    /\ loading = 0
    /\ fetching = 0
    /\ sending = 0
    /\ releasing = 0
    /\ fatal = 0
    /\ exited = FALSE
    /\ fetchFailed = FALSE
    /\ loadsReturned = 0

\* FetchAllCompDesc / FetchCompDescriptions returned the descriptors.
MainResolveOk ==
    /\ ~exited
    /\ mainpc = "resolve"
    /\ mainpc' = "dispatch"
    /\ UNCHANGED notMain
    /\ UNCHANGED <<numComps, dispatched, slots, completed, received, spawned,
                   loading, fetching, sending, releasing, fatal, exited,
                   fetchFailed, loadsReturned>>

\* The live fetch of the listing page failed: fetchPage calls log.Fatal.
MainResolveFetchFail ==
    /\ ~exited
    /\ mainpc = "resolve"
    /\ mainpc' = "fatal"
    /\ fetchFailed' = TRUE
    /\ UNCHANGED notMain
    /\ UNCHANGED <<numComps, dispatched, slots, completed, received, spawned,
                   loading, fetching, sending, releasing, fatal, exited,
                   loadsReturned>>

\* A requested identifier is not in the live listing: log.Fatal.
MainResolveMissing ==
    /\ ~exited
    /\ mainpc = "resolve"
    /\ mainpc' = "fatal"
    /\ UNCHANGED notMain
    /\ UNCHANGED <<numComps, dispatched, slots, completed, received, spawned,
                   loading, fetching, sending, releasing, fatal, exited,
                   fetchFailed, loadsReturned>>

\* Mutant of MainDispatch: the slot is not taken before the goroutine starts.
MainDispatchNoGate ==
    /\ ~exited
    /\ mainpc = "dispatch"
    /\ dispatched < numComps
    /\ slots' = IF slots < SlotCap THEN slots + 1 ELSE slots
    /\ spawned' = spawned + 1
    /\ dispatched' = dispatched + 1
    /\ UNCHANGED notMain
    /\ UNCHANGED <<mainpc, numComps, completed, received, loading, fetching,
                   sending, releasing, fatal, exited, fetchFailed,
                   loadsReturned>>

\* One iteration of the dispatch loop: slots <- 1 blocks while the channel
\* is full, then the goroutine is created.
MainDispatch ==
    /\ ~exited
    /\ mainpc = "dispatch"
    /\ dispatched < numComps
    /\ slots < SlotCap
    /\ slots' = slots + 1
    /\ spawned' = spawned + 1
    /\ dispatched' = dispatched + 1
    /\ UNCHANGED notMain
    /\ UNCHANGED <<mainpc, numComps, completed, received, loading, fetching,
                   sending, releasing, fatal, exited, fetchFailed,
                   loadsReturned>>

\* The dispatch loop ends: i = len(theOOM.Competitions).
MainDispatchDone ==
    /\ ~exited
    /\ mainpc = "dispatch"
    /\ dispatched = numComps
    /\ mainpc' = "join"
    /\ UNCHANGED notMain
    /\ UNCHANGED <<numComps, dispatched, slots, completed, received, spawned,
                   loading, fetching, sending, releasing, fatal, exited,
                   fetchFailed, loadsReturned>>

\* One iteration of the join loop: <- completed.
MainJoin ==
    /\ ~exited
    /\ mainpc = "join"
    /\ received < numComps
    /\ completed > 0
    /\ completed' = completed - 1
    /\ received' = received + 1
    /\ UNCHANGED notMain
    /\ UNCHANGED <<mainpc, numComps, dispatched, slots, spawned, loading,
                   fetching, sending, releasing, fatal, exited, fetchFailed,
                   loadsReturned>>

\* Mutant of MainJoinDone: the join loop runs one iteration too few.
MainJoinDoneEarly ==
    /\ ~exited
    /\ mainpc = "join"
    /\ received >= numComps - 1
    /\ mainpc' = "aggregate"
    /\ UNCHANGED notMain
    /\ UNCHANGED <<numComps, dispatched, slots, completed, received, spawned,
                   loading, fetching, sending, releasing, fatal, exited,
                   fetchFailed, loadsReturned>>

\* The join loop ends after len(theOOM.Competitions) receives.
MainJoinDone ==
    /\ ~exited
    /\ mainpc = "join"
    /\ received = numComps
    /\ mainpc' = "aggregate"
    /\ UNCHANGED notMain
    /\ UNCHANGED <<numComps, dispatched, slots, completed, received, spawned,
                   loading, fetching, sending, releasing, fatal, exited,
                   fetchFailed, loadsReturned>>

\* populateOOMWithCompetitions, calculateOOMRank, printOOM, return.
MainAggregate ==
    /\ ~exited
    /\ mainpc = "aggregate"
    /\ mainpc' = "done"
    /\ UNCHANGED notMain
    /\ UNCHANGED <<numComps, dispatched, slots, completed, received, spawned,
                   loading, fetching, sending, releasing, fatal, exited,
                   fetchFailed, loadsReturned>>

\* A goroutine starts running and calls oom.Load.
TaskStart ==
    /\ ~exited
    /\ spawned > 0
    /\ spawned' = spawned - 1
    /\ loading' = loading + 1
    /\ UNCHANGED notMain
    /\ UNCHANGED <<mainpc, numComps, dispatched, slots, completed, received,
                   fetching, sending, releasing, fatal, exited, fetchFailed,
                   loadsReturned>>

\* oom.Load: readCached found <key>.txt and Load returns.
LoadFromCache ==
    /\ ~exited
    /\ loading > 0
    /\ loading' = loading - 1
    /\ sending' = sending + 1
    /\ loadsReturned' = loadsReturned + 1
    /\ UNCHANGED notMain
    /\ UNCHANGED <<mainpc, numComps, dispatched, slots, completed, received,
                   spawned, fetching, releasing, fatal, exited, fetchFailed>>

\* oom.Load: no cache file; populateResultsFromWeb calls MustFetch.
LoadFetchStart ==
    /\ ~exited
    /\ loading > 0
    /\ loading' = loading - 1
    /\ fetching' = fetching + 1
    /\ UNCHANGED notMain
    /\ UNCHANGED <<mainpc, numComps, dispatched, slots, completed, received,
                   spawned, sending, releasing, fatal, exited, fetchFailed,
                   loadsReturned>>

\* The fetch succeeded; the page is parsed, scored and saved; Load returns.
LoadFetchOk ==
    /\ ~exited
    /\ fetching > 0
    /\ fetching' = fetching - 1
    /\ sending' = sending + 1
    /\ loadsReturned' = loadsReturned + 1
    /\ UNCHANGED notMain
    /\ UNCHANGED <<mainpc, numComps, dispatched, slots, completed, received,
                   spawned, loading, releasing, fatal, exited, fetchFailed>>

\* Mutant of LoadFetchFail: the failure is logged and Load returns.
LoadFetchFailLogged ==
    /\ ~exited
    /\ fetching > 0
    /\ fetching' = fetching - 1
    /\ sending' = sending + 1
    /\ fetchFailed' = TRUE
    /\ loadsReturned' = loadsReturned + 1
    /\ UNCHANGED notMain
    /\ UNCHANGED <<mainpc, numComps, dispatched, slots, completed, received,
                   spawned, loading, releasing, fatal, exited>>

\* The fetch failed (transport error or status other than 200): fetchPage
\* calls log.Fatal, which has not yet ended the process.
LoadFetchFail ==
    /\ ~exited
    /\ fetching > 0
    /\ fetching' = fetching - 1
    /\ fatal' = fatal + 1
    /\ fetchFailed' = TRUE
    /\ UNCHANGED notMain
    /\ UNCHANGED <<mainpc, numComps, dispatched, slots, completed, received,
                   spawned, loading, sending, releasing, exited,
                   loadsReturned>>

\* Mutant of TaskSend: completed is an unbuffered channel, so the send
\* waits until main is at <- completed.
TaskSendUnbuffered ==
    /\ ~exited
    /\ sending > 0
    /\ mainpc = "join"
    /\ completed < 1
    /\ sending' = sending - 1
    /\ completed' = completed + 1
    /\ releasing' = releasing + 1
    /\ UNCHANGED notMain
    /\ UNCHANGED <<mainpc, numComps, dispatched, slots, received, spawned,
                   loading, fetching, fatal, exited, fetchFailed,
                   loadsReturned>>

\* completed <- 1 (the channel holds len(theOOM.Competitions) values).
TaskSend ==
    /\ ~exited
    /\ sending > 0
    /\ completed < numComps
    /\ sending' = sending - 1
    /\ completed' = completed + 1
    /\ releasing' = releasing + 1
    /\ UNCHANGED notMain
    /\ UNCHANGED <<mainpc, numComps, dispatched, slots, received, spawned,
                   loading, fetching, fatal, exited, fetchFailed,
                   loadsReturned>>

\* <- slots, then the goroutine ends.
TaskRelease ==
    /\ ~exited
    /\ releasing > 0
    /\ slots > 0
    /\ releasing' = releasing - 1
    /\ slots' = slots - 1
    /\ UNCHANGED notMain
    /\ UNCHANGED <<mainpc, numComps, dispatched, completed, received, spawned,
                   loading, fetching, sending, fatal, exited, fetchFailed,
                   loadsReturned>>

\* log.Fatal ends in os.Exit(1): every goroutine stops.
ProcessExit ==
    /\ ~exited
    /\ (fatal > 0 \/ mainpc = "fatal")
    /\ exited' = TRUE
    /\ UNCHANGED notMain
    /\ UNCHANGED <<mainpc, numComps, dispatched, slots, completed, received,
                   spawned, loading, fetching, sending, releasing, fatal,
                   fetchFailed, loadsReturned>>

MainNext ==
    \/ MainResolveOk
    \/ MainResolveFetchFail
    \/ MainResolveMissing
    \/ MainDispatch
    \/ MainDispatchDone
    \/ MainJoin
    \/ MainJoinDone
    \/ MainAggregate
    \/ TaskStart
    \/ LoadFromCache
    \/ LoadFetchStart
    \/ LoadFetchOk
    \/ LoadFetchFail
    \/ TaskSend
    \/ TaskRelease
    \/ ProcessExit

MainSpecInit == MainInit /\ ScoreIdle /\ RunsIdle /\ CacheIdle /\ PageIdle
    /\ ConfIdle /\ ListIdle /\ TasksIdle /\ SaveIdle

SpecMain == MainSpecInit /\ [][MainNext]_vars

\* The Go scheduler does not leave the process idle while main or a
\* goroutine can take a step. Every step of SpecMain moves main or one
\* goroutine forward and none moves one back, so under this fairness a
\* run goes on until no step is left: a call of oom.Load does not hang,
\* it returns or ends in log.Fatal.
MainFairness ==
    WF_vars(MainNext)

SpecMainLive == MainSpecInit /\ [][MainNext]_vars /\ MainFairness

\* =====================================================================
\* SpecScore: populateResultsFromWeb on every page of at most MaxPlayers
\* rows over ScoreNames and ScoreResults
\* =====================================================================

ScoreNames == {<<"Alice">>, <<"Bob">>, <<"Carol">>}

ScoreResults == {<<"7", "2">>, <<"7", "5">>, <<"D", "Q">>}

ScorePages ==
    UNION {[1..k -> ScoreNames \X ScoreResults] : k \in 0..MaxPlayers}

ScoreInit ==
    /\ sPage \in ScorePages
    /\ sComp = NewCompetition(<<"1">>)
    /\ sDone = FALSE

\* populateResultsFromWeb(comp) on a page whose fetch succeeded.
Populate ==
    /\ ~sDone
    /\ sComp' = populateResultsFromWeb(sComp, sPage)
    /\ sDone' = TRUE
    /\ UNCHANGED sPage
    /\ UNCHANGED notScore

ScoreNext == Populate

ScoreSpecInit == ScoreInit /\ MainIdle /\ RunsIdle /\ CacheIdle /\ PageIdle
    /\ ConfIdle /\ ListIdle /\ TasksIdle /\ SaveIdle

SpecScore == ScoreSpecInit /\ [][ScoreNext]_vars

\* =====================================================================
\* SpecRuns: MaxRuns successive runs of main over one file system, with
\* at most three competitions each (fewer than SlotCap, so the gate never
\* closes and each goroutine starts as soon as it is dispatched)
\* =====================================================================

K1 == <<"1">>
K2 == <<"2">>
K3 == <<"3">>
Keys == {K1, K2, K3}

E1 == [Key |-> K1, Name |-> <<"Medal">>, Date |-> <<"5", " ", "May">>]
E2 == [Key |-> K2, Name |-> <<"Cup">>, Date |-> <<"7", " ", "Jun">>]
E3 == [Key |-> K3, Name |-> <<"Bowl">>, Date |-> <<"9", " ", "Jul">>]

\* The listing the site serves: with or without competition 3.
LiveListings == {<<E1, E2>>, <<E1, E2, E3>>}

\* all_comps_<year>.dat: absent, saved before competition 2 was listed,
\* or saved after.
ListingFiles == {None, File(<<E1>>), File(<<E1, E2>>)}

\* The second field of a configuration line: the identifier alone, or a
\* whole URL that asks for the gross ranking.
CompidTok ==
    <<"?", "c", "o", "m", "p", "i", "d", "=">>

GrossSuffix ==
    <<"&", "s", "o", "r", "t", "=", "0">>

HttpsBaseURL ==
    <<"h", "t", "t", "p", "s", ":", "/", "/", "w", "w", "w", ".", "c", "o",
      "l", "c", "h", "e", "s", "t", "e", "r", "g", "o", "l", "f", "c", "l",
      "u", "b", ".", "c", "o", "m", "/", "c", "o", "m", "p", "e", "t", "i",
      "t", "i", "o", "n", ".", "p", "h", "p", "?", "c", "o", "m", "p", "i",
      "d", "=">>

KeyOnly(k) == CompidTok \o k
HttpURL(k) == BaseURL \o k \o GrossSuffix
HttpsURL(k) == HttpsBaseURL \o k \o GrossSuffix

Line(k, u) == [key |-> k, url |-> u]

\* The configuration files: plain identifiers, one line with an http URL,
\* one with an https URL and a line without identifier, an identifier
\* the cached listing may lack (3), and the same identifier twice.
Configs ==
    { <<Line(K1, KeyOnly(K1)), Line(K2, KeyOnly(K2))>>,
      <<Line(K1, HttpURL(K1)), Line(K2, KeyOnly(K2))>>,
      <<Line(K1, HttpsURL(K1)), Line(<<>>, <<"n", "o", "t", "e", "s">>)>>,
      <<Line(K1, KeyOnly(K1)), Line(K3, KeyOnly(K3))>>,
      <<Line(K2, KeyOnly(K2)), Line(K2, KeyOnly(K2))>> }

URLs ==
    {BaseURL \o k \o SortSuffix : k \in Keys} \cup {HttpURL(k) : k \in Keys}

Row(n, r) == <<n, r>>

\* Result pages: two players; a player whose name holds a comma and a
\* player without score; two players of the same name.
PageTwo ==
    <<Row(<<"Alice">>, <<"7", "2">>), Row(<<"Bob">>, <<"7", "5">>)>>
PageComma ==
    <<Row(<<"Smith", ",", " ", "J">>, <<"7", "0">>),
      Row(<<"Carol">>, <<"D", "Q">>)>>
PageSameName ==
    <<Row(<<"Alice">>, <<"7", "2">>), Row(<<"Alice">>, <<"7", "5">>)>>

\* What the site serves at each URL.
WebSites ==
    { [u \in URLs |-> PageTwo],
      [u \in URLs |-> IF u = BaseURL \o K1 \o SortSuffix THEN PageComma
                      ELSE IF u = BaseURL \o K2 \o SortSuffix
                      THEN PageSameName ELSE PageTwo] }

\* A cache file of competition k that a run wrote and a person then
\* edited: a comment line, and the points of the match-play result.
EditedComp(k) ==
    [Key |-> k, Name |-> <<"Medal">>, Date |-> <<"5", " ", "May">>,
     URL |-> BaseURL \o k \o SortSuffix, NumPlayers |-> 2,
     Results |->
        [x \in {<<"Alice">>, <<"Bob">>} |->
            IF x = <<"Alice">>
            THEN [Name |-> x, OOMPoints |-> 1, Rank |-> 1,
                  Result |-> <<"7", "2">>]
            ELSE [Name |-> x, OOMPoints |-> 5, Rank |-> 2,
                  Result |-> <<"7", "5">>]]]

EditedFile(k) ==
    File(<< <<"#", " ", "edited">> >>
         \o saveComp(EditedComp(k), <<(<<"Bob">>), (<<"Alice">>)>>))

CompFileSets ==
    {f \in [Keys -> {None, EditedFile(K1), EditedFile(K2)}] :
        /\ f[K1] \in {None, EditedFile(K1)}
        /\ f[K2] \in {None, EditedFile(K2)}
        /\ f[K3] = None}

\* What the network does at one request.
NetOutcomes == {"ok", "fail", "nologin"}

MaxRuns == 2

Env ==
    [file |-> listingFile, client |-> client, logins |-> logins,
     session |-> session, listingFetches |-> listingFetches,
     refetches |-> refetches, writes |-> listingWrites,
     reads |-> listingReads]

RunsInit ==
    /\ cfg \in Configs
    /\ webListing \in LiveListings
    /\ webPages \in WebSites
    /\ listingFile \in ListingFiles
    /\ compFiles \in CompFileSets
    /\ runNo = 1
    /\ runpc = "resolve"
    /\ comps = <<>>
    /\ taskpc = <<>>
    /\ taskSrc = <<>>
    /\ client = "nil"
    /\ logins = 0
    /\ session = "none"
    /\ mutex = 0
    /\ listingFetches = 0
    /\ refetches = 0
    /\ listingWrites = 0
    /\ listingReads = 0
    /\ pageFetches = 0
    /\ resolved = "pending"
    /\ runFetchFailed = FALSE
    /\ cacheAtStart = listingFile
    /\ prevOk = FALSE
    /\ prevComps = <<>>

\* main up to the end of the dispatch loop: FetchCompDescriptions, then
\* one goroutine per descriptor. No goroutine exists while the resolver
\* runs, so its calls of MustFetch are taken whole; a login that fails
\* there ends the process with the mutex held.
RunResolve ==
    /\ runpc = "resolve"
    /\ \E net1, net2 \in NetOutcomes :
         \E r \in {FetchCompDescriptions(cfg, Env, webListing, net1, net2)} :
             /\ resolved' = r.status
             /\ runpc' = IF r.status = "ok" THEN "load" ELSE "fatal"
             /\ runFetchFailed' = (r.status = "fetch")
             /\ comps' = r.descs
             /\ taskpc' = [i \in 1..Len(r.descs) |-> "idle"]
             /\ taskSrc' = [i \in 1..Len(r.descs) |-> "none"]
             /\ listingFile' = r.env.file
             /\ client' = r.env.client
             /\ logins' = r.env.logins
             /\ session' = r.env.session
             /\ listingFetches' = r.env.listingFetches
             /\ refetches' = r.env.refetches
             /\ listingWrites' = r.env.writes
             /\ listingReads' = r.env.reads
    /\ UNCHANGED notRuns
    /\ UNCHANGED <<webVars, compFiles, runNo, mutex, pageFetches,
                   cacheAtStart, prevOk, prevComps>>

\* oom.Load(comp) up to the call of MustFetch: readCached returns true
\* and Load returns, or there is no file and the goroutine comes to
\* mutex.Lock().
LoadBegin(i) ==
    /\ runpc \in {"load", "dying"}
    /\ taskpc[i] = "idle"
    /\ IF compFiles[comps[i].Key].exists
       THEN /\ comps' = [comps EXCEPT
                   ![i] = readCached(comps[i],
                                     compFiles[comps[i].Key].data)]
            /\ taskpc' = [taskpc EXCEPT ![i] = "done"]
            /\ taskSrc' = [taskSrc EXCEPT ![i] = "cache"]
       ELSE /\ taskpc' = [taskpc EXCEPT ![i] = "lock"]
            /\ UNCHANGED <<comps, taskSrc>>
    /\ UNCHANGED notRuns
    /\ UNCHANGED <<webVars, fileVars, runNo, runpc, loginVars,
                   listingCounts, pageFetches, resolved, runFetchFailed,
                   cacheAtStart, prevOk, prevComps>>

\* Mutant of MustFetchLock: MustFetch without its mutex.
MustFetchLockNoMutex(i) ==
    /\ runpc \in {"load", "dying"}
    /\ taskpc[i] = "lock"
    /\ IF client = "nil"
       THEN /\ client' = "set"
            /\ logins' = logins + 1
            /\ taskpc' = [taskpc EXCEPT ![i] = "login"]
            /\ UNCHANGED mutex
       ELSE /\ taskpc' = [taskpc EXCEPT ![i] = "web"]
            /\ UNCHANGED <<client, logins, mutex>>
    /\ UNCHANGED notRuns
    /\ UNCHANGED <<webVars, fileVars, runNo, runpc, comps, taskSrc, session,
                   listingCounts, pageFetches, resolved, runFetchFailed,
                   cacheAtStart, prevOk, prevComps>>

\* MustFetch from mutex.Lock(): the goroutine takes the free mutex; with
\* client set it unlocks and goes on to fetchPage, with client nil it
\* enters login(), which sets client before its first request.
MustFetchLock(i) ==
    /\ runpc \in {"load", "dying"}
    /\ taskpc[i] = "lock"
    /\ mutex = 0
    /\ IF client = "nil"
       THEN /\ client' = "set"
            /\ logins' = logins + 1
            /\ mutex' = i
            /\ taskpc' = [taskpc EXCEPT ![i] = "login"]
       ELSE /\ taskpc' = [taskpc EXCEPT ![i] = "web"]
            /\ UNCHANGED <<client, logins, mutex>>
    /\ UNCHANGED notRuns
    /\ UNCHANGED <<webVars, fileVars, runNo, runpc, comps, taskSrc, session,
                   listingCounts, pageFetches, resolved, runFetchFailed,
                   cacheAtStart, prevOk, prevComps>>

\* The rest of login() and of the locked part of MustFetch: login()
\* returns nil and the mutex is unlocked, or it returns an error and
\* log.Fatal runs with the mutex still held.
LoginEnd(i) ==
    /\ runpc \in {"load", "dying"}
    /\ taskpc[i] = "login"
    /\ \E net \in NetOutcomes :
          IF net = "ok"
          THEN /\ session' = "ok"
               /\ mutex' = 0
               /\ taskpc' = [taskpc EXCEPT ![i] = "web"]
               /\ UNCHANGED runpc
          ELSE /\ session' = "failed"
               /\ taskpc' = [taskpc EXCEPT ![i] = "fatal"]
               /\ runpc' = "dying"
               /\ UNCHANGED mutex
    /\ UNCHANGED notRuns
    /\ UNCHANGED <<webVars, fileVars, runNo, comps, taskSrc, client, logins,
                   listingCounts, pageFetches, resolved, runFetchFailed,
                   cacheAtStart, prevOk, prevComps>>

\* The rest of oom.Load(comp): fetchPage, then the parse and scoring of
\* populateResultsFromWeb, then saveComp.
LoadFetch(i) ==
    /\ runpc \in {"load", "dying"}
    /\ taskpc[i] = "web"
    /\ pageFetches' = pageFetches + 1
    /\ \/ /\ taskpc' = [taskpc EXCEPT ![i] = "fatal"]
          /\ runpc' = "dying"
          /\ runFetchFailed' = TRUE
          /\ UNCHANGED <<comps, compFiles, taskSrc>>
       \/ \E c \in {populateResultsFromWeb(comps[i], webPages[comps[i].URL])} :
              /\ comps' = [comps EXCEPT ![i] = c]
              /\ \E order \in MapOrders(c.Results) :
                    compFiles' = [compFiles EXCEPT
                                     ![c.Key] = File(saveComp(c, order))]
              /\ taskpc' = [taskpc EXCEPT ![i] = "done"]
              /\ taskSrc' = [taskSrc EXCEPT ![i] = "web"]
              /\ UNCHANGED <<runpc, runFetchFailed>>
    /\ UNCHANGED notRuns
    /\ UNCHANGED <<webVars, listingFile, runNo, loginVars, listingCounts,
                   resolved, cacheAtStart, prevOk, prevComps>>

\* log.Fatal ends in os.Exit(1).
RunExit ==
    /\ runpc = "dying"
    /\ runpc' = "fatal"
    /\ UNCHANGED notRuns
    /\ UNCHANGED <<webVars, fileVars, runNo, comps, taskpc, taskSrc,
                   loginVars, listingCounts, pageFetches, resolved,
                   runFetchFailed, cacheAtStart, prevOk, prevComps>>

\* The join loop has received from every goroutine: aggregation, ranking
\* and output, and main returns.
RunAggregate ==
    /\ runpc = "load"
    /\ \A i \in 1..Len(comps) : taskpc[i] = "done"
    /\ runpc' = "done"
    /\ UNCHANGED notRuns
    /\ UNCHANGED <<webVars, fileVars, runNo, comps, taskpc, taskSrc,
                   loginVars, listingCounts, pageFetches, resolved,
                   runFetchFailed, cacheAtStart, prevOk, prevComps>>

\* The program is started again with the same oom.conf and year.
NextRun ==
    /\ runpc \in {"done", "fatal"}
    /\ runNo < MaxRuns
    /\ runNo' = runNo + 1
    /\ runpc' = "resolve"
    /\ prevOk' = (runpc = "done")
    /\ prevComps' = IF runpc = "done" THEN comps ELSE <<>>
    /\ comps' = <<>>
    /\ taskpc' = <<>>
    /\ taskSrc' = <<>>
    /\ client' = "nil"
    /\ logins' = 0
    /\ session' = "none"
    /\ mutex' = 0
    /\ listingFetches' = 0
    /\ refetches' = 0
    /\ listingWrites' = 0
    /\ listingReads' = 0
    /\ pageFetches' = 0
    /\ resolved' = "pending"
    /\ runFetchFailed' = FALSE
    /\ cacheAtStart' = listingFile
    /\ UNCHANGED notRuns
    /\ UNCHANGED <<webVars, fileVars>>

RunsNext ==
    \/ RunResolve
    \/ \E i \in 1..Len(comps) : LoadBegin(i)
    \/ \E i \in 1..Len(comps) : MustFetchLock(i)
    \/ \E i \in 1..Len(comps) : LoginEnd(i)
    \/ \E i \in 1..Len(comps) : LoadFetch(i)
    \/ RunExit
    \/ RunAggregate
    \/ NextRun

RunsSpecInit == RunsInit /\ MainIdle /\ ScoreIdle /\ CacheIdle /\ PageIdle
    /\ ConfIdle /\ ListIdle /\ TasksIdle /\ SaveIdle

SpecRuns == RunsSpecInit /\ [][RunsNext]_vars

\* =====================================================================
\* SpecCache: saveComp, readCached and saveComp again, on every
\* competition populated from a page of at most MaxRows rows over
\* CacheNames and CacheResults, under one of CacheCompNames
\* =====================================================================

MaxRows == 2

\* Player names as the site shows them: one word, or surname and initial.
CacheNames == {<<"Alice">>, <<"Bob">>, <<"Smith", ",", " ", "J">>}

CacheResults == {<<"7", "2">>, <<"D", "Q">>}

\* Competition names: one word, or two parts with a comma between.
CacheCompNames == {<<"Medal">>, <<"Medal", ",", " ", "Spring">>}

CachePages ==
    UNION {[1..k -> CacheNames \X CacheResults] : k \in 0..MaxRows}

\* A resolved descriptor populated from a page.
CacheComps ==
    {populateResultsFromWeb(
        [NewCompetition(K1) EXCEPT !.Name = n, !.Date = E1.Date,
                                   !.URL = BaseURL \o K1 \o SortSuffix], pg) :
        n \in CacheCompNames, pg \in CachePages}

CacheInit ==
    /\ rtComp \in CacheComps
    /\ rtFile1 = <<>>
    /\ rtBack = NewCompetition(<<>>)
    /\ rtFile2 = <<>>
    /\ rtpc = "start"

\* saveComp(comp): the first write of <key>.txt.
CacheSave ==
    /\ rtpc = "start"
    /\ \E order \in MapOrders(rtComp.Results) :
          rtFile1' = saveComp(rtComp, order)
    /\ rtpc' = "saved"
    /\ UNCHANGED <<rtComp, rtBack, rtFile2>>
    /\ UNCHANGED notCache

\* readCached(comp) on a Competition that has only its key.
CacheRead ==
    /\ rtpc = "saved"
    /\ rtBack' = readCached(NewCompetition(rtComp.Key), rtFile1)
    /\ rtpc' = "read"
    /\ UNCHANGED <<rtComp, rtFile1, rtFile2>>
    /\ UNCHANGED notCache

\* saveComp(comp) on what readCached left.
CacheResave ==
    /\ rtpc = "read"
    /\ \E order \in MapOrders(rtBack.Results) :
          rtFile2' = saveComp(rtBack, order)
    /\ rtpc' = "resaved"
    /\ UNCHANGED <<rtComp, rtFile1, rtBack>>
    /\ UNCHANGED notCache

CacheNext ==
    \/ CacheSave
    \/ CacheRead
    \/ CacheResave

CacheSpecInit == CacheInit /\ MainIdle /\ ScoreIdle /\ RunsIdle /\ PageIdle
    /\ ConfIdle /\ ListIdle /\ TasksIdle /\ SaveIdle

SpecCache == CacheSpecInit /\ [][CacheNext]_vars

\* =====================================================================
\* Pages as text. A page, a fragment and a pattern are sequences of
\* single characters.
\* =====================================================================

PlayerMarker ==
    <<"?", "p", "l", "a", "y", "e", "r", "i", "d", "=">>

ChampMarker ==
    <<"c", "l", "a", "s", "s", "=", "\"", "n", "a", "m", "e", "c", "o",
      "l", "\"", ">">>

Gt ==
    <<">">>

Lt ==
    <<"<">>

Paren ==
    <<"(">>

EndA ==
    <<"<", "/", "a", ">">>

\* The terminator of a player fragment of the standard layout.
EndATd ==
    <<"<", "/", "a", ">", "<", "/", "t", "d", ">">>

\* The terminator of a player fragment of the championship layout.
EndTdTr ==
    <<"<", "/", "t", "d", ">", "<", "/", "t", "r", ">">>

EndSpan ==
    <<"<", "/", "s", "p", "a", "n", ">">>

Nbsp ==
    <<"&", "n", "b", "s", "p", ";">>

NoScore ==
    <<"N", "S">>

\* What a detail function gives: a name and a result, or how the process
\* ended inside it ("panic": a slice expression out of range; "exit":
\* os.Exit(1)).
Detail(n, r) == [died |-> "", name |-> n, score |-> r]
DetailDied(how) == [died |-> how, name |-> <<>>, score |-> <<>>]

\* Mutant of playerDetail: a fragment without "</a></td>" gives an empty
\* result.
playerDetailLenient(s) ==
    LET start == Index(s, Gt)
        end == Index(s, EndA)
        rest == Slice(s, end, Len(s))
        end2 == Index(rest, EndATd)
        cell == Slice(rest, 0, end2)
    IN  IF ~SliceOk(s, start + 1, end) THEN DetailDied("panic")
        ELSE IF ~SliceOk(rest, 0, end2)
        THEN Detail(Slice(s, start + 1, end), <<>>)
        ELSE Detail(Slice(s, start + 1, end),
                    Slice(cell, LastIndex(cell, Gt) + 1, Len(cell)))

\* playerDetail(s): name between the first ">" and "</a>"; result after
\* the last ">" before "</a></td>".
playerDetail(s) ==
    LET start == Index(s, Gt)
        end == Index(s, EndA)
        rest == Slice(s, end, Len(s))
        end2 == Index(rest, EndATd)
        cell == Slice(rest, 0, end2)
    IN  IF ~SliceOk(s, start + 1, end) THEN DetailDied("panic")
        ELSE IF ~SliceOk(rest, 0, end2) THEN DetailDied("panic")
        ELSE Detail(Slice(s, start + 1, end),
                    Slice(cell, LastIndex(cell, Gt) + 1, Len(cell)))

\* champDetail(s): name between the first ">" and the first "<" or "(";
\* result after the last ">" before "</td></tr>", without a closing
\* "</span>", and "NS" for "&nbsp;".
champDetail(s) ==
    LET start == Index(s, Gt)
        lt == Index(s, Lt)
        end2 == Index(s, Paren)
        end == IF end2 # -1 /\ end2 < lt THEN end2 ELSE lt
        rest == Slice(s, end, Len(s))
        end3 == Index(rest, EndTdTr)
        cell == Slice(rest, 0, end3)
        cut == IF Slice(cell, Len(cell) - 7, Len(cell)) = EndSpan
               THEN Slice(cell, 0, Len(cell) - 7) ELSE cell
        score == Slice(cut, LastIndex(cut, Gt) + 1, Len(cut))
    IN  IF ~SliceOk(s, start + 1, end) THEN DetailDied("panic")
        ELSE IF end3 = -1 THEN DetailDied("exit")
        ELSE IF ~SliceOk(cell, Len(cell) - 7, Len(cell))
        THEN DetailDied("panic")
        ELSE Detail(TrimSpace(Slice(s, start + 1, end)),
                    IF score = Nbsp THEN NoScore ELSE score)

\* bufio.MaxScanTokenSize, the most the buffer of the Scanner made by
\* bufio.NewScanner grows to.
MaxScanTokenSize == 65536

\* The tokens bufio.Scanner yields with compSplitFunc or champSplitFunc:
\* the data before each occurrence of the marker, the scan going on one
\* byte after the place of the marker, and at the end the data left. The
\* split function sees what the buffer holds of the data not yet
\* consumed: when the buffer is full and holds neither a whole marker nor
\* the end of the data, Scan returns false (bufio.ErrTooLong) and the
\* loop of populateResultsFromWeb, which does not ask scanner.Err(), ends.
RECURSIVE Fragments(_, _)
Fragments(data, marker) ==
    IF data = <<>> THEN <<>>
    ELSE LET i == Index(data, marker)
         IN  IF i >= 0 /\ i + Len(marker) <= MaxScanTokenSize
             THEN <<Slice(data, 0, i)>>
                  \o Fragments(Slice(data, i + 1, Len(data)), marker)
             ELSE IF i < 0 /\ Len(data) < MaxScanTokenSize
             THEN <<data>>
             ELSE <<>>

\* The layout populateResultsFromWeb takes the page to have.
IsStandard(data) == Index(data, PlayerMarker) # -1

\* The fragments after the first, which is discarded.
PlayerFragments(data) ==
    LET f == Fragments(data,
                 IF IsStandard(data) THEN PlayerMarker ELSE ChampMarker)
    IN  IF f = <<>> THEN <<>> ELSE Tail(f)

\* detail(scanner.Text()) for each player fragment.
Details(data) ==
    [i \in 1..Len(PlayerFragments(data)) |->
        IF IsStandard(data) THEN playerDetail(PlayerFragments(data)[i])
        ELSE champDetail(PlayerFragments(data)[i])]

\* The first loop of populateResultsFromWeb on the text of a page: the
\* (name, result) pairs, or how the process ended at the first fragment
\* whose detail call did not return.
ScanPage(data) ==
    LET d == Details(data)
        bad == {i \in 1..Len(d) : d[i].died # ""}
    IN  IF bad = {}
        THEN [died |-> "",
              rows |-> [i \in 1..Len(d) |-> <<d[i].name, d[i].score>>]]
        ELSE [died |-> d[CHOOSE i \in bad : \A j \in bad : i <= j].died,
              rows |-> <<>>]

\* =====================================================================
\* SpecPage: oom.Load of one competition without cache file, on every
\* page of at most MaxRows player rows of one layout, and on pages with
\* markup as long as the buffer of the Scanner
\* =====================================================================

PageHead ==
    <<"<", "h", "t", "m", "l", ">", "<", "t", "a", "b", "l", "e", ">">>

PageFoot ==
    <<"<", "/", "t", "a", "b", "l", "e", ">">>

\* Rows of the standard layout: two whole rows, a row without handicap,
\* a row whose result is not in an anchor (no "</a></td>"), and a row
\* cut off inside the name.
StdAlice ==
    <<"<", "t", "r", ">", "<", "t", "d", ">", "<", "a", " ", "h", "r", "e",
      "f", "=", "\"", "p", "?", "p", "l", "a", "y", "e", "r", "i", "d",
      "=", "7", "\"", ">", "A", "l", "i", "c", "e", "<", "/", "a", ">",
      "(", "1", "6", ")", "<", "/", "t", "d", ">", "<", "t", "d", ">", "<",
      "a", " ", "h", "r", "e", "f", "=", "\"", "r", "\"", ">", "7", "2",
      "<", "/", "a", ">", "<", "/", "t", "d", ">", "<", "/", "t", "r", ">">>

StdBob ==
    <<"<", "t", "r", ">", "<", "t", "d", ">", "<", "a", " ", "h", "r", "e",
      "f", "=", "\"", "p", "?", "p", "l", "a", "y", "e", "r", "i", "d",
      "=", "8", "\"", ">", "B", "o", "b", "<", "/", "a", ">", "(", "5",
      ")", "<", "/", "t", "d", ">", "<", "t", "d", ">", "<", "a", " ", "h",
      "r", "e", "f", "=", "\"", "r", "\"", ">", "D", "Q", "<", "/", "a",
      ">", "<", "/", "t", "d", ">", "<", "/", "t", "r", ">">>

StdCarol ==
    <<"<", "t", "r", ">", "<", "t", "d", ">", "<", "a", " ", "h", "r", "e",
      "f", "=", "\"", "p", "?", "p", "l", "a", "y", "e", "r", "i", "d",
      "=", "9", "\"", ">", "C", "a", "r", "o", "l", "<", "/", "a", ">",
      "<", "/", "t", "d", ">", "<", "t", "d", ">", "<", "a", " ", "h", "r",
      "e", "f", "=", "\"", "r", "\"", ">", "7", "5", "<", "/", "a", ">",
      "<", "/", "t", "d", ">", "<", "/", "t", "r", ">">>

StdNoAnchor ==
    <<"<", "t", "r", ">", "<", "t", "d", ">", "<", "a", " ", "h", "r", "e",
      "f", "=", "\"", "p", "?", "p", "l", "a", "y", "e", "r", "i", "d",
      "=", "4", "\"", ">", "D", "a", "v", "e", "<", "/", "a", ">", "(",
      "9", ")", "<", "/", "t", "d", ">", "<", "t", "d", ">", "8", "0", "<",
      "/", "t", "d", ">", "<", "/", "t", "r", ">">>

StdCut ==
    <<"<", "t", "r", ">", "<", "t", "d", ">", "<", "a", " ", "h", "r", "e",
      "f", "=", "\"", "p", "?", "p", "l", "a", "y", "e", "r", "i", "d",
      "=", "5", "\"", ">", "E", "v">>

StdRows == {StdAlice, StdBob, StdCarol, StdNoAnchor, StdCut}

\* Rows of the championship layout: a whole row, a row whose result is in
\* a span, a row without result, and a row without "</td></tr>".
ChampAlice ==
    <<"<", "t", "r", ">", "<", "t", "d", " ", "c", "l", "a", "s", "s", "=",
      "\"", "n", "a", "m", "e", "c", "o", "l", "\"", ">", "A", "l", "i",
      "c", "e", " ", "(", "1", "6", ")", "<", "/", "t", "d", ">", "<", "t",
      "d", ">", "7", "0", "<", "/", "t", "d", ">", "<", "t", "d", ">", "7",
      "2", "<", "/", "t", "d", ">", "<", "/", "t", "r", ">">>

ChampBob ==
    <<"<", "t", "r", ">", "<", "t", "d", " ", "c", "l", "a", "s", "s", "=",
      "\"", "n", "a", "m", "e", "c", "o", "l", "\"", ">", "B", "o", "b",
      "<", "/", "t", "d", ">", "<", "t", "d", ">", "<", "s", "p", "a", "n",
      " ", "c", "l", "a", "s", "s", "=", "\"", "g", "\"", ">", "7", "5",
      "<", "/", "s", "p", "a", "n", ">", "<", "/", "t", "d", ">", "<", "/",
      "t", "r", ">">>

ChampCarol ==
    <<"<", "t", "r", ">", "<", "t", "d", " ", "c", "l", "a", "s", "s", "=",
      "\"", "n", "a", "m", "e", "c", "o", "l", "\"", ">", "C", "a", "r",
      "o", "l", " ", "(", "3", ")", "<", "/", "t", "d", ">", "<", "t", "d",
      ">", "&", "n", "b", "s", "p", ";", "<", "/", "t", "d", ">", "<", "/",
      "t", "r", ">">>

ChampNoEnd ==
    <<"<", "t", "r", ">", "<", "t", "d", " ", "c", "l", "a", "s", "s", "=",
      "\"", "n", "a", "m", "e", "c", "o", "l", "\"", ">", "D", "a", "v",
      "e", " ", "(", "9", ")", "<", "/", "t", "d", ">", "<", "t", "d", ">",
      "8", "0", "<", "/", "t", "d", ">">>

ChampRows == {ChampAlice, ChampBob, ChampCarol, ChampNoEnd}

RECURSIVE Concat(_)
Concat(rows) == IF rows = <<>> THEN <<>> ELSE Head(rows) \o Concat(Tail(rows))

\* A page is kept as the sequence of its parts: head, rows, foot. The
\* part LongMarkup stands for markup without marker that is as long as
\* the buffer of the Scanner.
LongMarkup == <<"markup of MaxScanTokenSize bytes">>

Filler == [i \in 1..MaxScanTokenSize |-> " "]

\* The bytes of a page given by its parts.
PageBytes(parts) ==
    Concat([i \in 1..Len(parts) |->
               IF parts[i] = LongMarkup THEN Filler ELSE parts[i]])

\* Pages of two whole rows with long markup before the first row, between
\* the rows, or after the last.
LongPages ==
    {<<PageHead, LongMarkup, StdAlice, StdBob, PageFoot>>,
     <<PageHead, StdAlice, LongMarkup, StdBob, PageFoot>>,
     <<PageHead, StdAlice, StdBob, LongMarkup, PageFoot>>}

\* The pages: head, rows of one layout, foot.
Pages ==
    {<<PageHead>> \o rows \o <<PageFoot>> :
        rows \in UNION {[1..k -> StdRows] : k \in 0..MaxRows}
                 \cup UNION {[1..k -> ChampRows] : k \in 0..MaxRows}}
    \cup LongPages

\* data, the bytes populateResultsFromWeb got from MustFetch.
pgData == PageBytes(pgText)

PageInit ==
    /\ pgText \in Pages
    /\ pgComp = [NewCompetition(K1) EXCEPT
                    !.Name = E1.Name, !.Date = E1.Date,
                    !.URL = BaseURL \o K1 \o SortSuffix]
    /\ pgFile = None
    /\ pgpc = "start"

\* oom.Load(comp) when <key>.txt does not exist and the fetch succeeds:
\* populateResultsFromWeb, in which a detail call may end the process,
\* then saveComp.
PageLoad ==
    /\ pgpc = "start"
    /\ \E r \in {ScanPage(pgData)} :
          IF r.died # ""
          THEN /\ pgpc' = "died"
               /\ UNCHANGED <<pgComp, pgFile>>
          ELSE \E c \in {populateResultsFromWeb(pgComp, r.rows)} :
                  /\ pgpc' = "loaded"
                  /\ pgComp' = c
                  /\ \E order \in MapOrders(c.Results) :
                        pgFile' = File(saveComp(c, order))
    /\ UNCHANGED pgText
    /\ UNCHANGED notPage

\* The goroutine sent on completed, main left the join loop and
\* populateOOMWithCompetitions reads comp.Results.
PageAggregate ==
    /\ pgpc = "loaded"
    /\ pgpc' = "aggregated"
    /\ UNCHANGED <<pgText, pgComp, pgFile>>
    /\ UNCHANGED notPage

PageNext ==
    \/ PageLoad
    \/ PageAggregate

PageSpecInit == PageInit /\ MainIdle /\ ScoreIdle /\ RunsIdle /\ CacheIdle
    /\ ConfIdle /\ ListIdle /\ TasksIdle /\ SaveIdle

SpecPage == PageSpecInit /\ [][PageNext]_vars

\* =====================================================================
\* The configuration file as text: each line a sequence of characters
\* =====================================================================

\* endInt(s, start): the first position from start on that holds no digit.
RECURSIVE endInt(_, _)
endInt(s, start) ==
    IF start < Len(s) /\ s[start + 1] \in Digits
    THEN endInt(s, start + 1) ELSE start

\* parseNextCompKey(s, 0): the digits after the first "?compid=" of s,
\* empty when s has none.
parseNextCompKey(s) ==
    LET start == Index(s, CompidTok)
    IN  IF start = -1 THEN <<>>
        ELSE Slice(s, start + Len(CompidTok),
                   endInt(s, start + Len(CompidTok)))

\* strings.Split(text, ",")[1] panics: the line has no comma.
NoSecondField(text) == Len(Split(text)) < 2

\* What parseKeysFromFile takes from one line: the identifier and the
\* trimmed second comma-separated field.
ConfLine(text) ==
    [key |-> parseNextCompKey(text), url |-> Field(text, 1)]

\* parseKeysFromFile on the text of the file: the descriptors, or "panic"
\* at the first line that has an identifier and no comma.
parseKeysFromText(texts) ==
    IF \E i \in 1..Len(texts) :
          parseNextCompKey(texts[i]) # <<>> /\ NoSecondField(texts[i])
    THEN [died |-> "panic", descs |-> <<>>]
    ELSE [died |-> "",
          descs |-> parseKeysFromFile(
                        [i \in 1..Len(texts) |->
                            IF NoSecondField(texts[i])
                            THEN [key |-> <<>>, url |-> <<>>]
                            ELSE ConfLine(texts[i])])]

\* =====================================================================
\* SpecConf: parseKeysFromFile on every file of at most MaxLines lines
\* of ConfTexts
\* =====================================================================

MaxLines == 2

\* The lines: name and identifier (the least the file's format asks for);
\* name and a whole http URL; name and a whole https URL; an identifier
\* followed by a remark; an identifier alone; a whole URL alone; a remark
\* with a comma; a remark without.
LineNameKey ==
    <<"m", "e", "d", "a", "l", ",", " ", "?", "c", "o", "m", "p", "i", "d",
      "=", "1">>

LineNameHttp ==
    <<"c", "u", "p", ",", " ", "h", "t", "t", "p", ":", "/", "/", "c", ".",
      "u", "k", "/", "c", ".", "p", "h", "p", "?", "c", "o", "m", "p", "i",
      "d", "=", "2", "&", "s", "o", "r", "t", "=", "0">>

LineNameHttps ==
    <<"b", "o", "w", "l", ",", " ", "h", "t", "t", "p", "s", ":", "/", "/",
      "c", ".", "u", "k", "/", "c", ".", "p", "h", "p", "?", "c", "o", "m",
      "p", "i", "d", "=", "3", "&", "s", "o", "r", "t", "=", "0">>

LineKeyRemark ==
    <<"?", "c", "o", "m", "p", "i", "d", "=", "2", "1", ",", " ", "g", "r",
      "o", "s", "s">>

LineKeyAlone ==
    <<"?", "c", "o", "m", "p", "i", "d", "=", "4">>

LineURLAlone ==
    <<"h", "t", "t", "p", ":", "/", "/", "c", ".", "u", "k", "/", "c", ".",
      "p", "h", "p", "?", "c", "o", "m", "p", "i", "d", "=", "5">>

LineRemarkComma ==
    <<"#", " ", "m", "a", "t", "c", "h", "p", "l", "a", "y", ",", " ", "s",
      "e", "e", " ", "b", "o", "a", "r", "d">>

LineRemark ==
    <<"#", " ", "2", "0", "1", "6">>

ConfTexts ==
    {LineNameKey, LineNameHttp, LineNameHttps, LineKeyRemark, LineKeyAlone,
     LineURLAlone, LineRemarkComma, LineRemark}

ConfFiles == UNION {[1..k -> ConfTexts] : k \in 0..MaxLines}

ConfInit ==
    /\ cfLines \in ConfFiles
    /\ cfOut = [died |-> "", descs |-> <<>>]
    /\ cfpc = "start"

\* parseKeysFromFile(fname) on a file that can be opened.
ConfParse ==
    /\ cfpc = "start"
    /\ cfOut' = parseKeysFromText(cfLines)
    /\ cfpc' = "done"
    /\ UNCHANGED cfLines
    /\ UNCHANGED notConf

ConfNext == ConfParse

ConfSpecInit == ConfInit /\ MainIdle /\ ScoreIdle /\ RunsIdle /\ CacheIdle
    /\ PageIdle /\ ListIdle /\ TasksIdle /\ SaveIdle

SpecConf == ConfSpecInit /\ [][ConfNext]_vars

\* =====================================================================
\* The listing page as text
\* =====================================================================

Quote ==
    <<"\"">>

QuoteGt ==
    <<"\"", ">">>

Td ==
    <<"<", "t", "d", ">">>

EndTd ==
    <<"<", "/", "t", "d", ">">>

\* tokenStart(s, tok): the position after the first tok in s, or -1.
tokenStart(s, tok) ==
    IF Index(s, tok) = -1 THEN -1 ELSE Index(s, tok) + Len(tok)

\* tokenEnd(s, start, terminator), where s[start:] does not panic: the
\* position of the first terminator from start on, or -1.
tokenEnd(s, start, terminator) ==
    IF Index(Slice(s, start, Len(s)), terminator) = -1 THEN -1
    ELSE start + Index(Slice(s, start, Len(s)), terminator)

\* The text of s between the first tok and the terminator that follows,
\* and the text from that terminator on; "panic" when tok or terminator
\* is missing (tokenEnd slices s[-1:], or the caller slices s[start:-1]).
Between(s, tok, terminator) ==
    IF tokenStart(s, tok) = -1 THEN [died |-> "panic"]
    ELSE IF tokenEnd(s, tokenStart(s, tok), terminator) = -1
    THEN [died |-> "panic"]
    ELSE [died |-> "",
          text |-> Slice(s, tokenStart(s, tok),
                         tokenEnd(s, tokenStart(s, tok), terminator)),
          rest |-> Slice(s, tokenEnd(s, tokenStart(s, tok), terminator),
                         Len(s))]

\* The loop of parseWebComps: the (identifier, name, date) of each
\* "?compid=" of the page in page order, or "panic".
RECURSIVE ScanListing(_)
ScanListing(compstr) ==
    IF tokenStart(compstr, CompidTok) = -1
    THEN [died |-> "", entries |-> <<>>]
    ELSE \* compid, compname, compdate and the loop on what is left
         LET id == Between(compstr, CompidTok, Quote)
         IN  IF id.died # "" THEN [died |-> "panic", entries |-> <<>>]
             ELSE LET name == Between(id.rest, QuoteGt, EndA)
                  IN  IF name.died # ""
                      THEN [died |-> "panic", entries |-> <<>>]
                      ELSE LET date == Between(name.rest, Td, EndTd)
                           IN  IF date.died # ""
                               THEN [died |-> "panic", entries |-> <<>>]
                               ELSE LET r == ScanListing(date.rest)
                                    IN  [died |-> r.died,
                                         entries |->
                                            << [Key |-> id.text,
                                                Name |-> name.text,
                                                Date |-> date.text] >>
                                            \o r.entries]

\* parseWebComps on the text of the page: the map, or "panic".
parseWebCompsText(compstr) ==
    LET r == ScanListing(compstr)
    IN  IF r.died # "" THEN [died |-> r.died, comps |-> <<>>]
        ELSE [died |-> "", comps |-> parseWebComps(r.entries)]

\* =====================================================================
\* SpecList: parseWebComps on every page of at most MaxEntries whole
\* entries followed by one of ListTails
\* =====================================================================

MaxEntries == 2

ListHead ==
    <<"<", "h", "t", "m", "l", ">", "<", "t", "a", "b", "l", "e", ">">>

\* A whole entry: a link with the identifier, the name, and the date cell.
EntryText(e) ==
    <<"<", "t", "r", ">", "<", "t", "d", ">", "<", "a", " ", "h", "r", "e",
      "f", "=", "\"", "c", "o", "m", "p", "e", "t", "i", "t", "i", "o",
      "n", ".", "p", "h", "p", "?", "c", "o", "m", "p", "i", "d", "=">>
    \o e.Key \o QuoteGt \o e.Name \o EndA \o EndTd \o Td \o e.Date
    \o EndTd \o <<"<", "/", "t", "r", ">">>

PlateLink ==
    <<"<", "a", " ", "h", "r", "e", "f", "=", "\"", "c", "o", "m", "p",
      "e", "t", "i", "t", "i", "o", "n", ".", "p", "h", "p", "?", "c", "o",
      "m", "p", "i", "d", "=", "9", "\"", ">", "P", "l", "a", "t", "e">>

\* What follows the last whole entry: nothing; the end of the table; a
\* "?compid=" whose closing quote is missing; one whose anchor is not
\* closed; one without date cell; one whose date cell is not closed.
TailTable ==
    <<"<", "/", "t", "a", "b", "l", "e", ">", "<", "/", "h", "t", "m", "l",
      ">">>

TailNoQuote ==
    <<"<", "a", " ", "h", "r", "e", "f", "=", "c", "o", "m", "p", "e", "t",
      "i", "t", "i", "o", "n", ".", "p", "h", "p", "?", "c", "o", "m", "p",
      "i", "d", "=", "9">>

TailNoAnchorEnd == PlateLink

TailNoDate == PlateLink \o EndA

TailNoDateEnd ==
    PlateLink \o EndA \o EndTd \o Td \o <<"1", " ", "A", "u", "g">>

ListTails ==
    {<<>>, TailTable, TailNoQuote, TailNoAnchorEnd, TailNoDate,
     TailNoDateEnd}

\* The entries of the listing: those of the site.
ListEntries == {E1, E2, E3}

RECURSIVE ConcatEntries(_)
ConcatEntries(es) ==
    IF es = <<>> THEN <<>>
    ELSE EntryText(Head(es)) \o ConcatEntries(Tail(es))

ListInit ==
    /\ lsMade \in UNION {[1..k -> ListEntries] : k \in 0..MaxEntries}
    /\ \E tail \in ListTails :
          lsText = ListHead \o ConcatEntries(lsMade) \o tail
    /\ lsOut = [died |-> "", comps |-> <<>>]
    /\ lspc = "start"

\* parseWebComps(compstr)
ListParse ==
    /\ lspc = "start"
    /\ lsOut' = parseWebCompsText(lsText)
    /\ lspc' = "done"
    /\ UNCHANGED <<lsText, lsMade>>
    /\ UNCHANGED notList

ListNext == ListParse

ListSpecInit == ListInit /\ MainIdle /\ ScoreIdle /\ RunsIdle /\ CacheIdle
    /\ PageIdle /\ ConfIdle /\ TasksIdle /\ SaveIdle

SpecList == ListSpecInit /\ [][ListNext]_vars

\* =====================================================================
\* SpecTasks: the dispatch loop, the goroutines and the join loop of main
\* (src/webfunc.go 196-215) for up to MaxTasks competitions, every
\* goroutine with its own position. concurrent++ and concurrent-- are a
\* read and a write of a variable that no lock or channel protects.
\* =====================================================================

MaxTasks == 3

TasksInit ==
    /\ tkN \in 0..MaxTasks
    /\ tkMain = "dispatch"
    /\ tkDispatched = 0
    /\ tkReceived = 0
    /\ tkSlots = 0
    /\ tkCompleted = 0
    /\ tkpc = [i \in 1..tkN |-> "none"]
    /\ concurrent = 0
    /\ tkReg = [i \in 1..tkN |-> 0]
    /\ wConcurrent = {}
    /\ wComp = [i \in 1..tkN |-> {}]

\* One iteration of the dispatch loop: slots <- 1, then the go statement
\* with the address of Competitions[i].
TkDispatch ==
    /\ tkMain = "dispatch"
    /\ tkDispatched < tkN
    /\ tkSlots < SlotCap
    /\ tkSlots' = tkSlots + 1
    /\ tkDispatched' = tkDispatched + 1
    /\ tkpc' = [tkpc EXCEPT ![tkDispatched + 1] = "incRead"]
    /\ UNCHANGED notTasks
    /\ UNCHANGED <<tkN, tkMain, tkReceived, tkCompleted, concurrent, tkReg,
                   wConcurrent, wComp>>

\* The dispatch loop ends.
TkDispatchDone ==
    /\ tkMain = "dispatch"
    /\ tkDispatched = tkN
    /\ tkMain' = "join"
    /\ UNCHANGED notTasks
    /\ UNCHANGED <<tkN, tkDispatched, tkReceived, tkSlots, tkCompleted, tkpc,
                   concurrent, tkReg, wConcurrent, wComp>>

\* One iteration of the join loop: <- completed.
TkJoin ==
    /\ tkMain = "join"
    /\ tkReceived < tkN
    /\ tkCompleted > 0
    /\ tkCompleted' = tkCompleted - 1
    /\ tkReceived' = tkReceived + 1
    /\ UNCHANGED notTasks
    /\ UNCHANGED <<tkN, tkMain, tkDispatched, tkSlots, tkpc, concurrent,
                   tkReg, wConcurrent, wComp>>

\* The join loop ends; aggregation, ranking and output follow, and main
\* returns, which ends every goroutine still running.
TkJoinDone ==
    /\ tkMain = "join"
    /\ tkReceived = tkN
    /\ tkMain' = "done"
    /\ UNCHANGED notTasks
    /\ UNCHANGED <<tkN, tkDispatched, tkReceived, tkSlots, tkCompleted, tkpc,
                   concurrent, tkReg, wConcurrent, wComp>>

\* concurrent++, first half: the goroutine reads concurrent.
TkIncRead(i) ==
    /\ tkMain # "done"
    /\ tkpc[i] = "incRead"
    /\ tkReg' = [tkReg EXCEPT ![i] = concurrent]
    /\ tkpc' = [tkpc EXCEPT ![i] = "incWrite"]
    /\ UNCHANGED notTasks
    /\ UNCHANGED <<tkN, tkMain, tkDispatched, tkReceived, tkSlots,
                   tkCompleted, concurrent, wConcurrent, wComp>>

\* concurrent++, second half: the goroutine writes what it read plus one.
TkIncWrite(i) ==
    /\ tkMain # "done"
    /\ tkpc[i] = "incWrite"
    /\ concurrent' = tkReg[i] + 1
    /\ wConcurrent' = wConcurrent \cup {i}
    /\ tkpc' = [tkpc EXCEPT ![i] = "load"]
    /\ UNCHANGED notTasks
    /\ UNCHANGED <<tkN, tkMain, tkDispatched, tkReceived, tkSlots,
                   tkCompleted, tkReg, wComp>>

\* oom.Load(comp): the goroutine writes the Competition it was given.
TkLoad(i) ==
    /\ tkMain # "done"
    /\ tkpc[i] = "load"
    /\ wComp' = [wComp EXCEPT ![i] = @ \cup {i}]
    /\ tkpc' = [tkpc EXCEPT ![i] = "send"]
    /\ UNCHANGED notTasks
    /\ UNCHANGED <<tkN, tkMain, tkDispatched, tkReceived, tkSlots,
                   tkCompleted, concurrent, tkReg, wConcurrent>>

\* completed <- 1.
TkSend(i) ==
    /\ tkMain # "done"
    /\ tkpc[i] = "send"
    /\ tkCompleted < tkN
    /\ tkCompleted' = tkCompleted + 1
    /\ tkpc' = [tkpc EXCEPT ![i] = "release"]
    /\ UNCHANGED notTasks
    /\ UNCHANGED <<tkN, tkMain, tkDispatched, tkReceived, tkSlots, concurrent,
                   tkReg, wConcurrent, wComp>>

\* <- slots.
TkRelease(i) ==
    /\ tkMain # "done"
    /\ tkpc[i] = "release"
    /\ tkSlots > 0
    /\ tkSlots' = tkSlots - 1
    /\ tkpc' = [tkpc EXCEPT ![i] = "decRead"]
    /\ UNCHANGED notTasks
    /\ UNCHANGED <<tkN, tkMain, tkDispatched, tkReceived, tkCompleted,
                   concurrent, tkReg, wConcurrent, wComp>>

\* concurrent--, first half.
TkDecRead(i) ==
    /\ tkMain # "done"
    /\ tkpc[i] = "decRead"
    /\ tkReg' = [tkReg EXCEPT ![i] = concurrent]
    /\ tkpc' = [tkpc EXCEPT ![i] = "decWrite"]
    /\ UNCHANGED notTasks
    /\ UNCHANGED <<tkN, tkMain, tkDispatched, tkReceived, tkSlots,
                   tkCompleted, concurrent, wConcurrent, wComp>>

\* concurrent--, second half, and the goroutine ends.
TkDecWrite(i) ==
    /\ tkMain # "done"
    /\ tkpc[i] = "decWrite"
    /\ concurrent' = tkReg[i] - 1
    /\ wConcurrent' = wConcurrent \cup {i}
    /\ tkpc' = [tkpc EXCEPT ![i] = "ended"]
    /\ UNCHANGED notTasks
    /\ UNCHANGED <<tkN, tkMain, tkDispatched, tkReceived, tkSlots,
                   tkCompleted, tkReg, wComp>>

TasksNext ==
    \/ TkDispatch
    \/ TkDispatchDone
    \/ TkJoin
    \/ TkJoinDone
    \/ \E i \in 1..tkN : TkIncRead(i)
    \/ \E i \in 1..tkN : TkIncWrite(i)
    \/ \E i \in 1..tkN : TkLoad(i)
    \/ \E i \in 1..tkN : TkSend(i)
    \/ \E i \in 1..tkN : TkRelease(i)
    \/ \E i \in 1..tkN : TkDecRead(i)
    \/ \E i \in 1..tkN : TkDecWrite(i)

TasksSpecInit == TasksInit /\ MainIdle /\ ScoreIdle /\ RunsIdle /\ CacheIdle
    /\ PageIdle /\ ConfIdle /\ ListIdle /\ SaveIdle

SpecTasks == TasksSpecInit /\ [][TasksNext]_vars

\* =====================================================================
\* SpecSave: one goroutine in saveComp, which creates <key>.txt and
\* writes it with one fmt.Fprint per line, while log.Fatal in another
\* goroutine can end the process at any moment; then the next run of the
\* program, whose oom.Load calls readCached on what is on disk.
\* =====================================================================

SaveInit ==
    /\ svComp \in CacheComps
    /\ svLines = <<>>
    /\ svFile = None
    /\ svBack = NewCompetition(<<>>)
    /\ svpc = "populated"

\* os.Create(fname): the file exists and is empty. The order of the range
\* over comp.Results is fixed here.
SaveCreate ==
    /\ svpc = "populated"
    /\ \E order \in MapOrders(svComp.Results) :
          svLines' = saveComp(svComp, order)
    /\ svFile' = File(<<>>)
    /\ svpc' = "writing"
    /\ UNCHANGED <<svComp, svBack>>
    /\ UNCHANGED notSave

\* One fmt.Fprint(f, ...): the next line is written to the file.
SaveWrite ==
    /\ svpc = "writing"
    /\ Len(svFile.data) < Len(svLines)
    /\ svFile' = File(SubSeq(svLines, 1, Len(svFile.data) + 1))
    /\ UNCHANGED <<svComp, svLines, svBack, svpc>>
    /\ UNCHANGED notSave

\* The last line is written: saveComp and oom.Load return.
SaveReturn ==
    /\ svpc = "writing"
    /\ Len(svFile.data) = Len(svLines)
    /\ svpc' = "saved"
    /\ UNCHANGED <<svComp, svLines, svFile, svBack>>
    /\ UNCHANGED notSave

\* fetchPage of another goroutine calls log.Fatal: os.Exit(1) ends the
\* process wherever this goroutine is.
SaveProcessExit ==
    /\ svpc \in {"populated", "writing", "saved"}
    /\ svpc' = "exited"
    /\ UNCHANGED <<svComp, svLines, svFile, svBack>>
    /\ UNCHANGED notSave

\* main returns after the join loop.
SaveRunEnds ==
    /\ svpc = "saved"
    /\ svpc' = "ended"
    /\ UNCHANGED <<svComp, svLines, svFile, svBack>>
    /\ UNCHANGED notSave

\* The next run: oom.Load of the same competition calls readCached, which
\* returns false without a file, panics, or returns true.
SaveNextLoad ==
    /\ svpc \in {"exited", "ended"}
    /\ IF ~svFile.exists
       THEN svpc' = "nofile" /\ UNCHANGED svBack
       ELSE IF readCachedPanics(svFile.data)
       THEN svpc' = "panicked" /\ UNCHANGED svBack
       ELSE /\ svpc' = "read"
            /\ svBack' = readCached(NewCompetition(svComp.Key), svFile.data)
    /\ UNCHANGED <<svComp, svLines, svFile>>
    /\ UNCHANGED notSave

SaveNext ==
    \/ SaveCreate
    \/ SaveWrite
    \/ SaveReturn
    \/ SaveProcessExit
    \/ SaveRunEnds
    \/ SaveNextLoad

SaveSpecInit == SaveInit /\ MainIdle /\ ScoreIdle /\ RunsIdle /\ CacheIdle
    /\ PageIdle /\ ConfIdle /\ ListIdle /\ TasksIdle

SpecSave == SaveSpecInit /\ [][SaveNext]_vars

\* ---------------------------------------------------------------- claims

\* C1: at every instant at most 10 calls of oom.Load, and so at most 10
\* competition page fetches, are in flight, for any number of competitions.
C1_AtMostTenLoads ==
    /\ LoadsInFlight <= SlotCap
    /\ fetching <= SlotCap
    /\ slots <= SlotCap

\* The gate is full of running loads while main still has competitions to
\* dispatch.
C1_Witness ==
    /\ loading + fetching = SlotCap
    /\ fetching > 0
    /\ dispatched < numComps
    /\ mainpc = "dispatch"

\* C2: aggregation starts only after oom.Load has returned for every
\* dispatched competition.
C2_AggregateAfterAllLoads ==
    mainpc \in {"aggregate", "done"} =>
        /\ dispatched = numComps
        /\ loadsReturned = numComps
        /\ LoadsInFlight = 0
        /\ spawned = 0

\* Aggregation is reached after more loads than the gate admits at once.
C2_Witness ==
    /\ mainpc = "aggregate"
    /\ numComps > SlotCap
    /\ loadsReturned = numComps

\* C3: a run in which a fetch failed never reaches aggregation or output.
C3_NoRankingAfterFailedFetch ==
    fetchFailed => mainpc \notin {"aggregate", "done"}

\* A competition page fetch failed while other loads had already
\* returned, and the process has exited.
C3_Witness ==
    /\ fetchFailed
    /\ exited
    /\ loadsReturned > 0
    /\ mainpc = "join"

\* ---------------------------------------------- claims: resolver, cache

\* The identifiers oom.conf requests, in file order.
RECURSIVE KeysOfLines(_)
KeysOfLines(lines) ==
    IF lines = <<>> THEN <<>>
    ELSE (IF Head(lines).key # <<>> THEN <<Head(lines).key>> ELSE <<>>)
         \o KeysOfLines(Tail(lines))

RequestedKeys == {KeysOfLines(cfg)[i] : i \in 1..Len(KeysOfLines(cfg))}

ListingKeys(l) == {l[i].Key : i \in 1..Len(l)}

\* Some requested identifier is not in listing l.
MissingIn(l) == \E k \in RequestedKeys : k \notin ListingKeys(l)

\* FetchCompDescriptions has ended, and not by a failure of the network.
ResolutionEnded == resolved \in {"ok", "missing"}

\* C4: an identifier missing from the cached listing but present in the
\* live one: resolution succeeds with all requested descriptors; an
\* identifier missing from the live listing (after the forced refetch, or
\* without cache): resolution ends fatally and returns nothing.
C4_StaleCacheRecovered ==
    /\ (/\ ResolutionEnded
        /\ cacheAtStart.exists
        /\ MissingIn(cacheAtStart.data)
        /\ ~MissingIn(webListing))
       => (/\ resolved = "ok"
           /\ [i \in 1..Len(comps) |-> comps[i].Key] = KeysOfLines(cfg))
    /\ (/\ ResolutionEnded
        /\ (~cacheAtStart.exists \/ MissingIn(cacheAtStart.data))
        /\ MissingIn(webListing))
       => (/\ resolved = "missing"
           /\ comps = <<>>
           /\ runpc = "fatal")

\* A stale cache lacked a requested identifier, the refetch found it, and
\* both descriptors were returned.
C4_Witness ==
    /\ resolved = "ok"
    /\ cacheAtStart.exists
    /\ MissingIn(cacheAtStart.data)
    /\ refetches = 1
    /\ Len(comps) = 2
    /\ runpc = "load"

\* The other case of C4: the identifier is missing from the live listing
\* too, reached by the forced refetch.
C4_WitnessFailed ==
    /\ resolved = "missing"
    /\ cacheAtStart.exists
    /\ refetches = 1
    /\ listingFetches = 1

\* C5: the listing page is fetched live at most once per run; the forced
\* refetch is made exactly when the listing came from cache and lacks a
\* requested identifier, and once; a cached listing that has every
\* requested identifier means no live fetch of the listing.
C5_OneLiveListingFetch ==
    /\ listingFetches <= 1
    /\ refetches <= 1
    /\ resolved # "pending" =>
          (refetches = 1 <=>
              (cacheAtStart.exists /\ MissingIn(cacheAtStart.data)))
    /\ (cacheAtStart.exists /\ ~MissingIn(cacheAtStart.data)) =>
          listingFetches = 0

\* The listing came from cache, lacked an identifier, and was fetched
\* live once.
C5_Witness ==
    /\ resolved = "ok"
    /\ cacheAtStart.exists
    /\ MissingIn(cacheAtStart.data)
    /\ refetches = 1
    /\ listingFetches = 1
    /\ runpc = "done"

\* The player rows of a cache file: the lines after the header row, which
\* is the sixth line from the "key" line, the first that is no comment.
PlayerLines(lines) ==
    LET k == CHOOSE j \in 1..Len(lines) :
                 /\ lines[j][1] # "#"
                 /\ \A h \in 1..(j - 1) : lines[h][1] = "#"
    IN  {lines[j] : j \in (k + 6)..Len(lines)}

\* What a file records: points, rank, result and name of each row.
Recorded(lines) ==
    {[Name |-> Field(l, 3), OOMPoints |-> Atoi(Field(l, 0)),
      Rank |-> Atoi(Field(l, 1)), Result |-> Field(l, 2)] :
        l \in PlayerLines(lines)}

\* C6: a call of oom.Load for a competition whose cache file exists makes
\* no fetch and no login, leaves the cache files as they are, and leaves
\* in the competition exactly the results, ranks and points the file
\* records.
C6_CachedLoad ==
    [][(runNo' = runNo /\ Len(taskpc') = Len(taskpc)) =>
        \A i \in 1..Len(taskpc) :
            (/\ taskpc[i] = "idle"
             /\ taskpc'[i] # "idle"
             /\ compFiles[comps[i].Key].exists)
            => (/\ taskpc'[i] = "done"
                /\ pageFetches' = pageFetches
                /\ listingFetches' = listingFetches
                /\ logins' = logins
                /\ client' = client
                /\ compFiles' = compFiles
                /\ listingFile' = listingFile
                /\ {comps'[i].Results[x] : x \in DOMAIN comps'[i].Results}
                       = Recorded(compFiles[comps[i].Key].data)
                /\ \A x \in DOMAIN comps'[i].Results :
                       comps'[i].Results[x].Name = x)]_vars

\* A competition was loaded from an edited cache file, in a run that
\* made no request: its points are those of the file, not those of the
\* ranks.
C6_Witness ==
    \E i \in 1..Len(comps) :
        /\ taskpc[i] = "done"
        /\ taskSrc[i] = "cache"
        /\ pageFetches = 0
        /\ logins = 0
        /\ comps[i].Results[<<"Bob">>].OOMPoints = 5
        /\ comps[i].Results[<<"Bob">>].Rank = 2

\* After a completed run every requested competition has its cache file
\* and the listing cache has every requested identifier.
CachesComplete ==
    /\ listingFile.exists
    /\ ~MissingIn(listingFile.data)
    /\ \A k \in RequestedKeys : compFiles[k].exists

\* A run that follows a completed run makes no request.
Offline ==
    /\ listingFetches = 0
    /\ pageFetches = 0
    /\ logins = 0
    /\ runpc \notin {"dying", "fatal"}

\* The results of competition i are those of the run before.
SameResults(i) ==
    /\ comps[i].NumPlayers = prevComps[i].NumPlayers
    /\ comps[i].Results = prevComps[i].Results

\* C7: after a completed run the caches are complete, so the next run
\* with the same configuration makes no fetch and no login and yields the
\* same competition results.
C7_NextRunOfflineSameResults ==
    /\ runpc = "done" => CachesComplete
    /\ prevOk => Offline
    /\ (prevOk /\ runpc = "done") =>
          (Len(comps) = Len(prevComps) /\
           \A i \in 1..Len(comps) : SameResults(i))

\* What holds of the code: the caches are complete and the next run is
\* offline.
C7_NextRunOffline ==
    /\ runpc = "done" => CachesComplete
    /\ prevOk => Offline
    /\ (prevOk /\ runpc = "done") => Len(comps) = Len(prevComps)

\* No name of the results of c holds a comma.
PlainNames(c) ==
    \A x \in DOMAIN c.Results : \A j \in 1..Len(x) : x[j] # ","

\* What holds of the code: the results are the same where no player name
\* of the earlier run holds a comma.
C7_SameResultsPlainNames ==
    (prevOk /\ runpc = "done") =>
        \A i \in 1..Len(comps) :
            PlainNames(prevComps[i]) => SameResults(i)

\* The second run completed offline after a first run that fetched.
C7_OfflineReached ==
    /\ prevOk
    /\ runpc = "done"
    /\ \E i \in 1..Len(comps) : taskSrc[i] = "cache"

\* The line of oom.conf that descriptor i comes from.
RECURSIVE LinesWithKey(_)
LinesWithKey(lines) ==
    IF lines = <<>> THEN <<>>
    ELSE (IF Head(lines).key # <<>> THEN <<Head(lines)>> ELSE <<>>)
         \o LinesWithKey(Tail(lines))

\* The entry of listing l for identifier k.
EntryOf(l, k) == l[CHOOSE j \in 1..Len(l) : l[j].Key = k]

\* The URL the listing gives identifier k.
ListingURL(k) == BaseURL \o k

\* Descriptor i, as FetchCompDescriptions returned it, has the URL of its
\* line if the line's second field is a URL (supplied), else the
\* listing's URL with the suffix; name and date are the listing's.
DescriptorAsClaimed(i, supplied) ==
    LET line == LinesWithKey(cfg)[i]
        e == EntryOf(listingFile.data, line.key)
    IN  /\ comps[i].Key = line.key
        /\ comps[i].URL = IF supplied THEN line.url
                          ELSE ListingURL(line.key) \o SortSuffix
        /\ comps[i].Name = e.Name
        /\ comps[i].Date = e.Date

\* FetchCompDescriptions has returned and no descriptor was loaded yet.
JustResolved ==
    /\ resolved = "ok"
    /\ runpc = "load"
    /\ \A i \in 1..Len(comps) : taskpc[i] = "idle"

\* C8: after FetchCompDescriptions succeeds, a descriptor whose line
\* supplied a URL has exactly that URL, one without has the listing's URL
\* and the suffix, and name and date are the listing entry's.
C8_URLNameDate ==
    JustResolved =>
        /\ Len(comps) = Len(LinesWithKey(cfg))
        /\ \A i \in 1..Len(comps) :
              DescriptorAsClaimed(i,
                  Scheme(LinesWithKey(cfg)[i].url) \in {Http, Https})

\* What holds of the code: the same, where a supplied URL is one whose
\* scheme is http.
C8_URLNameDateHttp ==
    JustResolved =>
        /\ Len(comps) = Len(LinesWithKey(cfg))
        /\ \A i \in 1..Len(comps) :
              DescriptorAsClaimed(i,
                  Scheme(LinesWithKey(cfg)[i].url) = Http)

\* A line with an http URL and a line without were both resolved.
C8_HttpReached ==
    /\ JustResolved
    /\ \E i \in 1..Len(comps) : comps[i].URL = HttpURL(K1)
    /\ \E i \in 1..Len(comps) : comps[i].URL = ListingURL(K2) \o SortSuffix

\* ------------------------------------------------------- claims: scoring

\* The sum of the points stored in a results map.
RECURSIVE SumPoints(_)
SumPoints(m) ==
    IF DOMAIN m = {} THEN 0
    ELSE LET x == CHOOSE y \in DOMAIN m : TRUE
         IN  m[x].OOMPoints + SumPoints([y \in (DOMAIN m) \ {x} |-> m[y]])

AllNumeric(rows) == \A i \in 1..Len(rows) : AtoiOk(rows[i][2])

DistinctNames(rows) ==
    \A i, j \in 1..Len(rows) : rows[i][1] = rows[j][1] => i = j

Triangle(k) == (k * (k + 1)) \div 2

\* C9: for every page of k >= 1 rows whose results are all numeric, the
\* points stored in the competition's results sum to k + (k-1) + ... + 1
\* and exactly one stored player has k points.
C9_PointsSum ==
    (sDone /\ Len(sPage) >= 1 /\ AllNumeric(sPage)) =>
        /\ SumPoints(sComp.Results) = Triangle(Len(sPage))
        /\ Cardinality({x \in DOMAIN sComp.Results :
                sComp.Results[x].OOMPoints = Len(sPage)}) = 1

\* What holds of the code: the same, for pages whose player names are
\* pairwise distinct.
C9_PointsSumDistinctNames ==
    (sDone /\ Len(sPage) >= 1 /\ AllNumeric(sPage) /\ DistinctNames(sPage)) =>
        /\ SumPoints(sComp.Results) = Triangle(Len(sPage))
        /\ Cardinality({x \in DOMAIN sComp.Results :
                sComp.Results[x].OOMPoints = Len(sPage)}) = 1

\* The stored result of the player at page position p is the one the
\* claim gives it.
ScoredAsClaimed(p) ==
    /\ sPage[p][1] \in DOMAIN sComp.Results
    /\ sComp.Results[sPage[p][1]].Rank = p
    /\ sComp.Results[sPage[p][1]].Result = sPage[p][2]
    /\ sComp.Results[sPage[p][1]].OOMPoints =
           IF AtoiOk(sPage[p][2]) THEN sComp.NumPlayers - (p - 1) ELSE 0

\* C10: the player at 1-based page position p gets rank p and points
\* playerCount - (p - 1) if its raw result parses as an integer and 0 points
\* if it does not.
C10_RankAndPoints ==
    sDone => \A p \in 1..Len(sPage) : ScoredAsClaimed(p)

\* What holds of the code: the same, for pages whose player names are
\* pairwise distinct.
C10_RankAndPointsDistinctNames ==
    (sDone /\ DistinctNames(sPage)) =>
        \A p \in 1..Len(sPage) : ScoredAsClaimed(p)

\* The scenario of the specification: Alice 72, Bob 75, Carol DQ.
C10_Scenario ==
    (sDone /\ sPage = << <<(<<"Alice">>), (<<"7", "2">>)>>,
                         <<(<<"Bob">>), (<<"7", "5">>)>>,
                         <<(<<"Carol">>), (<<"D", "Q">>)>> >>) =>
        /\ sComp.Results[<<"Alice">>].OOMPoints = 3
        /\ sComp.Results[<<"Bob">>].OOMPoints = 2
        /\ sComp.Results[<<"Carol">>].OOMPoints = 0
        /\ sComp.Results[<<"Alice">>].Rank = 1
        /\ sComp.Results[<<"Bob">>].Rank = 2
        /\ sComp.Results[<<"Carol">>].Rank = 3

\* ------------------------------------------------- claims: cache round trip

\* C11: the text written by saveComp, read back by readCached and written
\* again by saveComp is identical to the text of the first write, for
\* every competition.
C11_RoundTrip ==
    rtpc = "resaved" => rtFile2 = rtFile1

\* No text of c holds a comma: its name, date, URL, and the names and
\* results of its players.
PlainComp(c) ==
    /\ \A f \in {c.Name, c.Date, c.URL} : \A j \in 1..Len(f) : f[j] # ","
    /\ PlainNames(c)

\* The lines of a file from the first to the header row, and the set of
\* its player rows.
SameUpToRowOrder(f, g) ==
    /\ Len(f) = Len(g)
    /\ SubSeq(f, 1, 6) = SubSeq(g, 1, 6)
    /\ {f[j] : j \in 7..Len(f)} = {g[j] : j \in 7..Len(g)}

\* What holds of the code: for a competition without a comma in its texts
\* the second write has the lines of the first, its player rows in any
\* order, and readCached gives back the competition that was saved.
C11_RoundTripPlain ==
    (rtpc = "resaved" /\ PlainComp(rtComp)) =>
        /\ rtBack = rtComp
        /\ SameUpToRowOrder(rtFile1, rtFile2)

\* A competition of two players without a comma made the round trip.
C11_PlainReached ==
    /\ rtpc = "resaved"
    /\ PlainComp(rtComp)
    /\ rtComp.NumPlayers = 2
    /\ Cardinality(DOMAIN rtComp.Results) = 2


\* -------------------------------------------------- claims: page parsing

\* The terminator a fragment of the page's layout is expected to hold.
Terminator(data) == IF IsStandard(data) THEN EndATd ELSE EndTdTr

\* Some player fragment of the page lacks its layout's terminator.
LacksTerminator(data) ==
    \E i \in 1..Len(PlayerFragments(data)) :
        Index(PlayerFragments(data)[i], Terminator(data)) = -1

\* C12: if a player fragment lacks the terminator its layout expects, the
\* process ends inside oom.Load: no cache file is written for the
\* competition, its results stay empty and aggregation is not reached.
C12_MissingTerminatorAborts ==
    (pgpc \notin {"start", "idle"} /\ LacksTerminator(pgData)) =>
        /\ pgpc = "died"
        /\ pgFile = None
        /\ pgComp.NumPlayers = 0
        /\ DOMAIN pgComp.Results = {}

\* A page whose first row is whole and whose second lacks the terminator
\* ended the process.
C12_Witness ==
    /\ pgpc = "died"
    /\ LacksTerminator(pgData)
    /\ Len(PlayerFragments(pgData)) = 2
    /\ Index(PlayerFragments(pgData)[1], Terminator(pgData)) # -1


\* ------------------------------------------- claims: configuration file

\* The lines that contain ?compid=<digits>, in file order.
IdLines(texts) ==
    SelectSeq(texts, LAMBDA t : parseNextCompKey(t) # <<>>)

\* The text after the first comma of a line, trimmed; empty when the line
\* has no comma.
AfterComma(t) ==
    IF Index(t, <<",">>) = -1 THEN <<>>
    ELSE TrimSpace(Slice(t, Index(t, <<",">>) + 1, Len(t)))

\* Descriptor d is what the claim gives line t: the line's identifier, and
\* a URL only when the text after the comma is a whole URL, then that.
DescriptorOfLine(d, t, schemes) ==
    /\ d.Key = parseNextCompKey(t)
    /\ d.URL = IF Scheme(AfterComma(t)) \in schemes THEN AfterComma(t)
               ELSE <<>>

\* C13: parseKeysFromFile returns one descriptor per line that contains
\* ?compid=<digits>, in file order, ignoring the other lines; a line with
\* an identifier and no comma gives a descriptor with an empty URL.
C13_DescriptorPerIdLine ==
    cfpc = "done" =>
        /\ cfOut.died = ""
        /\ Len(cfOut.descs) = Len(IdLines(cfLines))
        /\ \A i \in 1..Len(IdLines(cfLines)) :
              \E sch \in {{Http}, {Http, Https}} :
                 DescriptorOfLine(cfOut.descs[i], IdLines(cfLines)[i], sch)

\* What holds of the code: the same when every line with an identifier
\* has a comma, a whole URL being one of scheme http; and the process
\* ends in a panic exactly when some line with an identifier has none.
C13_DescriptorPerCommaLine ==
    cfpc = "done" =>
        /\ cfOut.died = "panic" <=>
              \E i \in 1..Len(IdLines(cfLines)) :
                 Index(IdLines(cfLines)[i], <<",">>) = -1
        /\ cfOut.died = "" =>
              /\ Len(cfOut.descs) = Len(IdLines(cfLines))
              /\ \A i \in 1..Len(IdLines(cfLines)) :
                    DescriptorOfLine(cfOut.descs[i], IdLines(cfLines)[i],
                                     {Http})

\* A file of two lines with identifier and comma, one with a URL, was
\* parsed.
C13_CommaLinesReached ==
    /\ cfpc = "done"
    /\ cfOut.died = ""
    /\ Len(cfOut.descs) = 2
    /\ cfOut.descs[1].URL # <<>>
    /\ cfOut.descs[2].URL = <<>>


\* ------------------------------------------------- claims: listing page

\* The map has one entry per whole entry the page was made of, keyed by
\* its identifier, with its name and date.
MapOfWholeEntries(m, made) ==
    /\ DOMAIN m = {made[i].Key : i \in 1..Len(made)}
    /\ \A i \in 1..Len(made) :
          /\ m[made[i].Key].Key = made[i].Key
          /\ m[made[i].Key].Name = made[i].Name
          /\ m[made[i].Key].Date = made[i].Date

\* C14: parseWebComps returns one mapping entry per complete (identifier,
\* name, date) triple of the page, keyed by the identifier, and an
\* incomplete last "?compid=" ends the list without error or crash.
C14_IncompleteTailEndsList ==
    lspc = "done" =>
        /\ lsOut.died = ""
        /\ MapOfWholeEntries(lsOut.comps, lsMade)

\* The page holds a "?compid=" after its last whole entry.
HasIncompleteTail ==
    Index(Slice(lsText, Len(ListHead \o ConcatEntries(lsMade)),
                Len(lsText)), CompidTok) # -1

\* What holds of the code: a page of whole entries gives the map of
\* these; a page with an incomplete last "?compid=" ends the process in a
\* panic.
C14_WholeEntriesOrPanic ==
    lspc = "done" =>
        IF HasIncompleteTail THEN lsOut.died = "panic"
        ELSE lsOut.died = "" /\ MapOfWholeEntries(lsOut.comps, lsMade)

\* A page of two whole entries gave a map of size two.
C14_TwoEntriesReached ==
    /\ lspc = "done"
    /\ lsOut.died = ""
    /\ Cardinality(DOMAIN lsOut.comps) = 2
    /\ \A k \in DOMAIN lsOut.comps :
          lsOut.comps[k].Name # <<>> /\ lsOut.comps[k].Date # <<>>


\* Key, name, date and URL of a Competition.
Descriptor(c) == <<c.Key, c.Name, c.Date, c.URL>>

\* Key, name, date and URL as the head of a cache file records them.
FileDescriptor(lines) ==
    LET k == SkipComments(lines, 1)
    IN  <<Field(lines[k], 1), Field(lines[k + 1], 1), Field(lines[k + 2], 1),
          Field(lines[k + 3], 1)>>

\* C15 as stated: from the moment the resolver has returned the
\* descriptors, no step of a run changes the key, name, date or URL of
\* any competition; oom.Load writes only the results and the player count.
C15_LoadKeepsDescriptor ==
    [][(runNo' = runNo /\ Len(taskpc') = Len(taskpc)) =>
        \A i \in 1..Len(taskpc) :
            Descriptor(comps'[i]) = Descriptor(comps[i])]_vars

\* C15 as the code has it: a call of oom.Load that populates from the
\* web leaves key, name, date and URL as the resolver gave them; a call
\* that populates from the cache file replaces all four by what the head
\* of the file records; and no other step of the run changes them.
C15_DescriptorKeptOrFromFile ==
    [][(runNo' = runNo /\ Len(taskpc') = Len(taskpc)) =>
        \A i \in 1..Len(taskpc) :
            IF taskpc[i] = "idle" /\ taskpc'[i] = "done"
            THEN Descriptor(comps'[i])
                     = FileDescriptor(compFiles[comps[i].Key].data)
            ELSE Descriptor(comps'[i]) = Descriptor(comps[i])]_vars

\* In one run the first competition, given in oom.conf by a URL of gross
\* scores, was loaded from a cache file and has the URL of the file, and
\* the second was loaded from the web and has the name and date of the
\* listing.
C15_Witness ==
    /\ cfg = <<Line(K1, HttpURL(K1)), Line(K2, KeyOnly(K2))>>
    /\ Len(comps) = 2
    /\ taskSrc[1] = "cache"
    /\ comps[1].URL = BaseURL \o K1 \o SortSuffix
    /\ comps[1].URL # HttpURL(K1)
    /\ taskSrc[2] = "web"
    /\ comps[2].Key = K2
    /\ \E n \in 1..Len(webListing) :
          /\ webListing[n].Key = K2
          /\ comps[2].Name = webListing[n].Name
          /\ comps[2].Date = webListing[n].Date


\* The goroutines whose saveComp has written the cache file of key k in
\* this run.
WritersOf(k) ==
    {i \in 1..Len(comps) : comps[i].Key = k /\ taskSrc[i] = "web"}

\* C17: whatever oom.conf the resolver accepts, no two loader goroutines
\* of a run write the same cache file <key>.txt.
C17_OneWriterPerCacheFile ==
    \A k \in Keys : Cardinality(WritersOf(k)) <= 1


\* C18: all_comps_<year>.dat is written at most once in a run, and it is
\* written and read only while main is in the resolver, when no loader
\* goroutine exists yet; no step of a loader goroutine reads or writes it.
C18_ListingCacheWrittenOnceBeforeDispatch ==
    /\ [](listingWrites <= 1)
    /\ [][(/\ runNo' = runNo
           /\ \/ listingFile' # listingFile
              \/ listingWrites' # listingWrites
              \/ listingReads' # listingReads)
          => (runpc = "resolve" /\ taskpc = <<>>)]_vars

\* A run whose stale listing cache was replaced by one live fetch, and
\* whose loader goroutines have since run: one from the web, one from a
\* cache file.
C18_Witness ==
    /\ listingWrites = 1
    /\ listingReads = 1
    /\ refetches = 1
    /\ cacheAtStart.exists
    /\ listingFile # cacheAtStart
    /\ \E i \in 1..Len(comps) : taskSrc[i] = "web"
    /\ \E i \in 1..Len(comps) : taskSrc[i] = "cache"


\* C20: login() is called at most once in a process; every request of a
\* page by fetchPage, of the listing or of a competition, comes after a
\* login that returned without error; and after a login that returned an
\* error the process is on its way out with no page fetched.
C20_LoginOnceBeforeAnyFetch ==
    /\ [](logins <= 1)
    /\ [](session = "failed" =>
            /\ pageFetches = 0
            /\ listingFetches = 0
            /\ runpc \in {"dying", "fatal"})
    /\ [][(pageFetches' > pageFetches \/ listingFetches' > listingFetches)
          => (logins' = 1 /\ session' = "ok")]_vars

\* The listing came from its cache file, so the first call of MustFetch
\* was made by a loader goroutine; two goroutines have fetched their
\* pages after the one login.
C20_Witness ==
    /\ listingFetches = 0
    /\ logins = 1
    /\ session = "ok"
    /\ mutex = 0
    /\ pageFetches = 2
    /\ \A i \in 1..Len(comps) : taskSrc[i] = "web"

\* A login of a loader goroutine has failed while another goroutine
\* waits at mutex.Lock().
C20_FailedLoginReached ==
    /\ session = "failed"
    /\ \E i, j \in 1..Len(comps) :
          taskpc[i] = "fatal" /\ mutex = i /\ taskpc[j] = "lock"


\* C19: whatever the number of competitions, once main is in the dispatch
\* loop it comes to the aggregation, unless a call of oom.Load has not
\* returned but ended the process in log.Fatal: neither slots <- 1, nor
\* completed <- 1, nor <- slots, nor <- completed blocks for ever.
C19_MainReachesAggregation ==
    (mainpc = "dispatch") ~> (mainpc = "aggregate" \/ fetchFailed)

\* More competitions than the gate has slots, every call of oom.Load has
\* returned, and main has left the join loop.
C19_Witness ==
    /\ numComps > SlotCap
    /\ loadsReturned = numComps
    /\ ~fetchFailed
    /\ mainpc = "aggregate"

\* No competition at all: main passes both loops.
C19_EmptyReached ==
    numComps = 0 /\ mainpc = "aggregate"


\* C16: apart from the two channels, no variable is written by more than
\* one loader goroutine, and the Competition of each goroutine is written
\* by that goroutine alone.
C16_NoVariableWrittenByTwoTasks ==
    /\ Cardinality(wConcurrent) <= 1
    /\ \A k \in 1..tkN : wComp[k] \subseteq {k}


\* C21: a cache file that the next run finds and reads holds all the lines
\* of one saveComp call, the head and every player row, also when the run
\* that wrote it was ended by log.Fatal.
C21_CacheFileReadIsComplete ==
    svpc \in {"read", "panicked"} =>
        /\ svFile.data = svLines
        /\ Len(svLines) = 6 + Cardinality(DOMAIN svComp.Results)


\* The ranks stored in the results mapping of c.
StoredRanks(c) == {c.Results[x].Rank : x \in DOMAIN c.Results}

\* C22: after populateResultsFromWeb the player count is the number of
\* entries of the results mapping, and the ranks stored in the mapping are
\* 1..playerCount, each in one entry.
C22_CountIsMapSize ==
    sDone =>
        /\ sComp.NumPlayers = Cardinality(DOMAIN sComp.Results)
        /\ StoredRanks(sComp) = 1..sComp.NumPlayers
        /\ \A x, y \in DOMAIN sComp.Results :
               sComp.Results[x].Rank = sComp.Results[y].Rank => x = y

\* The same for pages on which no two rows have the same name.
C22_CountIsMapSizeDistinctNames ==
    (sDone /\ DistinctNames(sPage))
        => /\ sComp.NumPlayers = Cardinality(DOMAIN sComp.Results)
           /\ StoredRanks(sComp) = 1..sComp.NumPlayers


\* -------------------------------------------------- claims: fragments

\* The row-start marker of the page's layout.
MarkerOf(data) == IF IsStandard(data) THEN PlayerMarker ELSE ChampMarker

\* Where marker occurs in data (from 0).
OccurrencesOf(data, marker) ==
    {i \in 0..(Len(data) - Len(marker)) :
        SubSeq(data, i + 1, i + Len(marker)) = marker}

\* Where the marker of its layout occurs in the page.
Occurrences(data) ==
    LET marker == MarkerOf(data)
    IN  OccurrencesOf(data, marker)

\* The i-th occurrence of the marker, and the end of the page after the
\* last.
Occurrence(data, i) ==
    LET occ == Occurrences(data)
    IN  IF i > Cardinality(occ) THEN Len(data)
        ELSE CHOOSE p \in occ : Cardinality({q \in occ : q < p}) = i - 1

\* C23: a page with m occurrences of the marker of its layout gives m
\* player fragments, the i-th being the text from one byte after the i-th
\* occurrence to the next occurrence or the end of the page; and when the
\* population has returned, the player count is m and the player of the
\* i-th fragment has rank i (where no later fragment has the same name).
C23_FragmentPerMarker ==
    pgpc \notin {"idle", "start"} =>
        /\ Len(PlayerFragments(pgData)) = Cardinality(Occurrences(pgData))
        /\ \A i \in 1..Len(PlayerFragments(pgData)) :
              PlayerFragments(pgData)[i]
                  = Slice(pgData, Occurrence(pgData, i) + 1,
                          Occurrence(pgData, i + 1))
        /\ pgpc \in {"loaded", "aggregated"} =>
              /\ pgComp.NumPlayers = Cardinality(Occurrences(pgData))
              /\ \A i \in 1..Len(Details(pgData)) :
                    (\A j \in (i + 1)..Len(Details(pgData)) :
                        Details(pgData)[j].name # Details(pgData)[i].name)
                    => pgComp.Results[Details(pgData)[i].name].Rank = i

\* The same for pages shorter than the buffer of the Scanner.
C23_FragmentPerMarkerShortPage ==
    Len(pgData) < MaxScanTokenSize => C23_FragmentPerMarker

====
